---- MODULE Spec2Model ----
(***************************************************************************)
(* Crime Analytics Engine of SafeCity: the hotspot detector, the risk      *)
(* analyzer, the anomaly detector, the crime classifier and the dashboard  *)
(* data provider, as state machines over a bounded incident collection.    *)
(*                                                                         *)
(* Numbers.  The source computes in IEEE doubles; the model computes the   *)
(* same formulas exactly, in integers:                                     *)
(*   - a position is a latitude on one meridian, in grid steps of          *)
(*     GridMetres metres.  On a meridian the haversine distance is         *)
(*     R * |dLat|, so the distance of two incidents is GridMetres times    *)
(*     the difference of their grid latitudes.  GridMetres is chosen so    *)
(*     that no distance falls on a threshold (1500 m, 1000 m), where the   *)
(*     rounding of the doubles would decide;                               *)
(*   - a time is a whole number of hours since the epoch;                  *)
(*   - a risk score is held times Scale, a multiple of every denominator   *)
(*     the formula divides by, so that the scaled score is an integer;     *)
(*   - a trend percent and a cluster radius are held in tenths.            *)
(* Array positions are 1-based here and 0-based in the source.             *)
(***************************************************************************)
EXTENDS Integers, Sequences, FiniteSets, TLC

VARIABLES
    incidents,       \* the incident collection handed to the component
    now,             \* the wall clock (new Date()), in hours
    pc,              \* position of the running call
    calls,           \* number of calls that have returned
    index,           \* detectHotspots: position of the outer forEach
    visited,         \* detectHotspots: the visited set
    queue,           \* expandCluster: the traversal queue
    clusterIndices,  \* expandCluster: members of the cluster being grown
    clusters,        \* detectHotspots: the clusters, then the result
    zones,           \* calculateRiskZones: the result
    anomalies,       \* detectAnomalies: the result, or the thrown error
    previous,        \* what the previous call of the component returned
    component,       \* the operation the caller called
    classification,  \* classifyCrimes: the result
    trendAnalysis,   \* analyzeTrend: the result
    working,         \* getDashboardData: the incidents it works on
    dashboard        \* getDashboardData: the result

vars == <<incidents, now, pc, calls, index, visited, queue, clusterIndices,
          clusters, zones, anomalies, previous, component, classification,
          trendAnalysis, working, dashboard>>

\* What the hotspot detector, the risk analyzer and the anomaly detector leave alone.
elsewhere == <<component, classification, trendAnalysis, working, dashboard>>

----------------------------------------------------------------------------
(* Bounds of the model *)

MaxIncidents == 4

MaxLat == 2

MaxRiskIncidents == 3

MaxZones == 11

MaxTick == 1

MaxAnomalyIncidents == 5

MaxCrowd == 22

MaxBuckets == 28

MaxBaseCount == 2

MaxClassified == 3

MaxBulk == 38

MaxPerDay == 4

MaxEngineIncidents == 5

MaxDocuments == 5

MaxHotspotCrowd == 52

MaxChain == 6

MaxChainLat == 3

----------------------------------------------------------------------------
(* Arithmetic helpers *)

Min(a, b) == IF a <= b THEN a ELSE b

Max(a, b) == IF a >= b THEN a ELSE b

Abs(a) == IF a < 0 THEN -a ELSE a

\* Math.round(a / b) for b > 0: the nearest integer, halves towards +infinity.
RoundDiv(a, b) == (2 * a + b) \div (2 * b)

\* The sum of s[lo..hi], halved so that a long sequence nests little.
RECURSIVE SumBetween(_, _, _)
SumBetween(s, lo, hi) ==
    IF lo > hi THEN 0
    ELSE IF lo = hi THEN s[lo]
    ELSE SumBetween(s, lo, (lo + hi) \div 2) + SumBetween(s, (lo + hi) \div 2 + 1, hi)

\* The sum of the numbers of s.
SumSeq(s) == SumBetween(s, 1, Len(s))

\* Array.prototype.filter: the elements of s satisfying Test, in order.
FilterSeq(s, Test(_)) == SelectSeq(s, Test)

\* Array.prototype.map, as a sequence written out.
MapSeq(s, F(_)) == SubSeq([i \in 1..Len(s) |-> F(s[i])], 1, Len(s))

Range(s) == {s[i] : i \in 1..Len(s)}

\* Array.prototype.sort((a, b) => Key(b) - Key(a)): descending and stable.
\* An element goes after the elements of greater key and after the earlier
\* elements of equal key.
SortDesc(s, Key(_)) ==
    LET n == Len(s)
        keys == SubSeq([i \in 1..n |-> Key(s[i])], 1, n)
        before == SubSeq([i \in 1..n |->
                             Cardinality({j \in 1..n : \/ keys[j] > keys[i]
                                                       \/ keys[j] = keys[i] /\ j < i})],
                         1, n)
    IN  SubSeq([p \in 1..n |-> s[CHOOSE i \in 1..n : before[i] = p - 1]], 1, n)

----------------------------------------------------------------------------
(* Hotspot detector: src/lib/ml/hotspotDetector.ts *)

GridMetres == 1200

Eps == 1500

MinPoints == 3

\* Haversine distance of two incidents of one meridian, in metres.
CalculateDistance(point1, point2) == GridMetres * Abs(point2.lat - point1.lat)

\* Positions of the incidents within eps of incidents[excludeIndex], itself excluded.
GetNeighbors(incs, excludeIndex) ==
    FilterSeq([i \in 1..Len(incs) |-> i],
              LAMBDA i : /\ i # excludeIndex
                         /\ CalculateDistance(incs[excludeIndex], incs[i]) <= Eps)

CountSeverity(clusterIncidents, sev) ==
    Len(FilterSeq(clusterIncidents, LAMBDA i : i.severity = sev))

\* Mean planar distance from the centre, times 111 km per degree, in tenths of
\* a km.  One grid step is GridMetres / 111195 degrees, so the distance of a
\* member from the centre sum/n is |n*lat - sum| * GridMetres * 111 / (n * 111195)
\* km; Math.round(avg * 10) / 10 keeps one decimal.  The quotient is taken in
\* lowest terms: 45 divides GridMetres * 111 * 10 and 111195.
CalculateClusterRadius(clusterIncidents) ==
    LET n == Len(clusterIncidents)
        sum == SumSeq(MapSeq(clusterIncidents, LAMBDA i : i.lat))
        dev == SumSeq(MapSeq(clusterIncidents, LAMBDA i : Abs(n * i.lat - sum)))
    IN  IF n = 0 THEN 0
        ELSE RoundDiv(dev * ((GridMetres * 111 * 10) \div 45), n * n * (111195 \div 45))

\* CalculateIntensity with the density score (n / 50) * 50 left uncapped.
CalculateIntensityUncappedDensity(cluster) ==
    LET n == Len(cluster.incidents)
        high == cluster.severityDistribution.high
    IN  RoundDiv(Min(100 * n, n * n + high * 50), n)

\* Math.round(min(100, min(50, (n / 50) * 50) + (high / n) * 50))
CalculateIntensity(cluster) ==
    LET n == Len(cluster.incidents)
        high == cluster.severityDistribution.high
    IN  RoundDiv(Min(100 * n, Min(50, n) * n + high * 50), n)

\* The cluster record expandCluster returns for the members it collected.
MakeCluster(incs, indices) ==
    LET clusterIncidents == MapSeq(indices, LAMBDA idx : incs[idx])
    IN  [ incidents |-> clusterIncidents,
          radius |-> CalculateClusterRadius(clusterIncidents),
          severityDistribution |->
              [ high |-> CountSeverity(clusterIncidents, "high"),
                medium |-> CountSeverity(clusterIncidents, "medium"),
                low |-> CountSeverity(clusterIncidents, "low") ],
          intensity |-> 0,
          rank |-> 0 ]

\* clusters.sort by incident count, then intensity and rank of each.
RankClusters(cs) ==
    LET sorted == SortDesc(cs, LAMBDA c : Len(c.incidents))
    IN  [i \in 1..Len(sorted) |->
            [sorted[i] EXCEPT !.intensity = CalculateIntensity(sorted[i]),
                              !.rank = i]]

\* detectHotspots is entered: fewer than minPoints incidents return [] at once.
DetectHotspots ==
    /\ pc = "detectHotspots"
    /\ clusters' = <<>>
    /\ visited' = {}
    /\ index' = 1
    /\ pc' = IF Len(incidents) < MinPoints THEN "done" ELSE "forEach"
    /\ calls' = IF Len(incidents) < MinPoints THEN calls + 1 ELSE calls
    /\ UNCHANGED <<incidents, now, queue, clusterIndices, zones, anomalies, previous, elsewhere>>

\* One turn of incidents.forEach: a visited incident is skipped; otherwise it is
\* marked visited, and with minPoints neighbours it seeds a cluster.
VisitIncident ==
    /\ pc = "forEach"
    /\ index <= Len(incidents)
    /\ IF index \in visited
       THEN /\ index' = index + 1
            /\ UNCHANGED <<visited, queue, clusterIndices, pc>>
       ELSE LET neighbors == GetNeighbors(incidents, index)
            IN  /\ visited' = visited \cup {index}
                /\ IF Len(neighbors) >= MinPoints
                   THEN /\ clusterIndices' = <<index>>
                        /\ queue' = neighbors
                        /\ pc' = "expandCluster"
                        /\ UNCHANGED index
                   ELSE /\ index' = index + 1
                        /\ UNCHANGED <<queue, clusterIndices, pc>>
    /\ UNCHANGED <<incidents, now, calls, clusters, zones, anomalies, previous, elsewhere>>

\* ExpandStep with the neighbours of a visited incident pushed once more.
ExpandStepPushingAgain ==
    /\ pc = "expandCluster"
    /\ queue # <<>>
    /\ LET idx == Head(queue)
           currentNeighbors == GetNeighbors(incidents, idx)
       IN  /\ queue' = IF Len(currentNeighbors) >= MinPoints
                       THEN Tail(queue) \o currentNeighbors
                       ELSE Tail(queue)
           /\ IF idx \in visited
              THEN UNCHANGED <<visited, clusterIndices>>
              ELSE /\ visited' = visited \cup {idx}
                   /\ clusterIndices' = Append(clusterIndices, idx)
    /\ UNCHANGED <<incidents, now, pc, calls, index, clusters, zones, anomalies, previous, elsewhere>>

\* ExpandStep with a visited incident taken into the cluster once more.
ExpandStepAddingVisited ==
    /\ pc = "expandCluster"
    /\ queue # <<>>
    /\ LET idx == Head(queue)
           currentNeighbors == GetNeighbors(incidents, idx)
       IN  IF idx \in visited
           THEN /\ queue' = Tail(queue)
                /\ clusterIndices' = Append(clusterIndices, idx)
                /\ UNCHANGED visited
           ELSE /\ visited' = visited \cup {idx}
                /\ clusterIndices' = Append(clusterIndices, idx)
                /\ queue' = IF Len(currentNeighbors) >= MinPoints
                            THEN Tail(queue) \o currentNeighbors
                            ELSE Tail(queue)
    /\ UNCHANGED <<incidents, now, pc, calls, index, clusters, zones, anomalies, previous, elsewhere>>

\* ExpandStep with the neighbours of a joining incident never pushed.
ExpandStepNotSpreading ==
    /\ pc = "expandCluster"
    /\ queue # <<>>
    /\ LET idx == Head(queue)
       IN  IF idx \in visited
           THEN /\ queue' = Tail(queue)
                /\ UNCHANGED <<visited, clusterIndices>>
           ELSE /\ visited' = visited \cup {idx}
                /\ clusterIndices' = Append(clusterIndices, idx)
                /\ queue' = Tail(queue)
    /\ UNCHANGED <<incidents, now, pc, calls, index, clusters, zones, anomalies, previous, elsewhere>>

\* One turn of the while loop of expandCluster.
ExpandStep ==
    /\ pc = "expandCluster"
    /\ queue # <<>>
    /\ LET idx == Head(queue)
           currentNeighbors == GetNeighbors(incidents, idx)
       IN  IF idx \in visited
           THEN /\ queue' = Tail(queue)
                /\ UNCHANGED <<visited, clusterIndices>>
           ELSE /\ visited' = visited \cup {idx}
                /\ clusterIndices' = Append(clusterIndices, idx)
                /\ queue' = IF Len(currentNeighbors) >= MinPoints
                            THEN Tail(queue) \o currentNeighbors
                            ELSE Tail(queue)
    /\ UNCHANGED <<incidents, now, pc, calls, index, clusters, zones, anomalies, previous, elsewhere>>

\* The queue is empty: expandCluster returns the cluster, which is pushed.
ReturnCluster ==
    /\ pc = "expandCluster"
    /\ queue = <<>>
    /\ clusters' = Append(clusters, MakeCluster(incidents, clusterIndices))
    /\ clusterIndices' = <<>>
    /\ index' = index + 1
    /\ pc' = "forEach"
    /\ UNCHANGED <<incidents, now, calls, visited, queue, zones, anomalies, previous, elsewhere>>

\* ReturnHotspots with the incidents sorted in place, not the clusters alone.
ReturnHotspotsSortingInput ==
    /\ pc = "forEach"
    /\ index > Len(incidents)
    /\ clusters' = RankClusters(clusters)
    /\ incidents' = SortDesc(incidents, LAMBDA i : i.lat)
    /\ pc' = "done"
    /\ calls' = calls + 1
    /\ UNCHANGED <<now, index, visited, queue, clusterIndices, zones, anomalies, previous,
                   elsewhere>>

\* The forEach is over: sort, intensity, rank, return.
ReturnHotspots ==
    /\ pc = "forEach"
    /\ index > Len(incidents)
    /\ clusters' = RankClusters(clusters)
    /\ pc' = "done"
    /\ calls' = calls + 1
    /\ UNCHANGED <<incidents, now, index, visited, queue, clusterIndices, zones,
                   anomalies, previous, elsewhere>>

\* An incident of the hotspot inputs: an identity, a grid latitude, a severity.
HotspotIncident(id, lat, sev) ==
    [id |-> id, lat |-> lat, severity |-> sev, zone |-> "A", type |-> "theft",
     timestamp |-> 0, timeAgo |-> "5 mins ago"]

Severities == {"high", "medium", "low"}

\* Up to MaxIncidents incidents on latitudes 0..MaxLat, of high or low severity.
HotspotInput(n, lat, sev) == [i \in 1..n |-> HotspotIncident(i, lat[i], sev[i])]

\* The variables no input decides, as they are before a call.
Idle ==
    /\ calls = 0
    /\ index = 1
    /\ visited = {}
    /\ queue = <<>>
    /\ clusterIndices = <<>>
    /\ clusters = <<>>
    /\ zones = <<>>
    /\ anomalies = [threw |-> FALSE, value |-> <<>>]
    /\ previous = <<>>
    /\ classification = [clusters |-> <<>>, crimeTypeStats |-> <<>>, topCrimeTypes |-> <<>>]
    /\ trendAnalysis = [byDay |-> <<>>, prediction |-> <<>>, seasonalityFactor |-> 100]
    /\ working = <<>>
    /\ dashboard = <<>>

InitHotspot ==
    /\ \E n \in 0..MaxIncidents :
           \E lat \in [1..n -> 0..MaxLat], sev \in [1..n -> {"high", "low"}] :
               incidents = HotspotInput(n, lat, sev)
    /\ now = 0
    /\ pc = "detectHotspots"
    /\ component = "detectHotspots"
    /\ Idle

NextHotspot ==
    \/ DetectHotspots
    \/ VisitIncident
    \/ ExpandStep
    \/ ReturnCluster
    \/ ReturnHotspots

SpecHotspot == InitHotspot /\ [][NextHotspot]_vars

\* A crowd of n incidents at one place, the first `high` of them of high severity.
CrowdedHotspotInput(n, high) ==
    [i \in 1..n |-> HotspotIncident(i, 0, IF i <= high THEN "high" ELSE "low")]

InitHotspotCrowd ==
    /\ \E n \in {MinPoints, MaxHotspotCrowd - 2, MaxHotspotCrowd - 1, MaxHotspotCrowd} :
           \E high \in {0, 1, n - 1, n} : incidents = CrowdedHotspotInput(n, high)
    /\ now = 0
    /\ pc = "detectHotspots"
    /\ component = "detectHotspots"
    /\ Idle

SpecHotspotCrowd == InitHotspotCrowd /\ [][NextHotspot]_vars

\* Incidents strung along a meridian: up to MaxChain incidents on the
\* latitudes 0..MaxChainLat, in every order, and MaxChain + 2 incidents at two
\* places out of each other's reach, in every order.
ChainInput(n, lat) == [i \in 1..n |-> HotspotIncident(i, lat[i], "low")]

InitHotspotChain ==
    /\ \/ \E n \in 0..MaxChain :
              \E lat \in [1..n -> 0..MaxChainLat] : incidents = ChainInput(n, lat)
       \/ \E lat \in [1..(MaxChain + 2) -> {0, 2}] : incidents = ChainInput(MaxChain + 2, lat)
    /\ now = 0
    /\ pc = "detectHotspots"
    /\ component = "detectHotspots"
    /\ Idle

SpecHotspotChain == InitHotspotChain /\ [][NextHotspot]_vars

\* Up to MaxIncidents incidents at two places out of each other's reach, in
\* every order, and MaxChain - 2 to MaxChain incidents that go round the
\* latitudes 0..MaxChainLat in steps of `stride`.
InitHotspotFair ==
    /\ \/ \E n \in 0..MaxIncidents :
              \E lat \in [1..n -> {0, MaxLat}] : incidents = ChainInput(n, lat)
       \/ \E n \in (MaxChain - 2)..MaxChain, stride \in 0..MaxChainLat :
              incidents = ChainInput(n, [i \in 1..n |-> (i * stride) % (MaxChainLat + 1)])
    /\ now = 0
    /\ pc = "detectHotspots"
    /\ component = "detectHotspots"
    /\ Idle

\* The call runs on one thread to its return: a step that can be taken is taken.
SpecHotspotFair == InitHotspotFair /\ [][NextHotspot]_vars /\ WF_vars(NextHotspot)

\* The caller hands the same incidents to detectHotspots once more, in another
\* order: a second call, whose result is compared with the first.
Orders(n) == {p \in [1..n -> 1..n] : \A i, j \in 1..n : p[i] = p[j] => i = j}

CallPermuted ==
    /\ pc = "done"
    /\ calls = 1
    /\ \E p \in Orders(Len(incidents)) :
           incidents' = [i \in 1..Len(incidents) |-> incidents[p[i]]]
    /\ previous' = clusters
    /\ pc' = "detectHotspots"
    /\ UNCHANGED <<now, calls, index, visited, queue, clusterIndices, clusters,
                   zones, anomalies, elsewhere>>

NextPermuted ==
    \/ NextHotspot
    \/ CallPermuted

SpecPermuted == InitHotspot /\ [][NextPermuted]_vars

----------------------------------------------------------------------------
(* Risk analyzer: src/lib/ml/riskAnalyzer.ts *)

\* Scores are held times Scale, the least common multiple of 1..15: every
\* ratio the score formula takes of at most 15 incidents is then an integer.
Scale == 8 * 9 * 5 * 7 * 11 * 13

HoursPerDay == 24

TopZones == 10

\* The distinct elements of s, in the order of their first occurrence: the
\* iteration order of a Set or of the keys of a Map filled from s.
Distinct(s) ==
    LET firsts == SelectSeq([i \in 1..Len(s) |-> i],
                            LAMBDA i : \A j \in 1..(i - 1) : s[j] # s[i])
    IN  MapSeq(firsts, LAMBDA i : s[i])

\* What zoneMap holds for a zone name once the forEach is over.
ZoneData(incs, name) ==
    LET zoneIncidents == FilterSeq(incs, LAMBDA i : i.zone = name)
    IN  [ incidents |-> zoneIncidents,
          highCount |-> Len(FilterSeq(zoneIncidents, LAMBDA i : i.severity = "high")),
          mediumCount |-> Len(FilterSeq(zoneIncidents, LAMBDA i : i.severity = "medium")),
          lowCount |-> Len(FilterSeq(zoneIncidents,
                                     LAMBDA i : i.severity \notin {"high", "medium"})),
          crimeTypes |-> Distinct(MapSeq(zoneIncidents, LAMBDA i : i.type)),
          timestamps |-> MapSeq(zoneIncidents, LAMBDA i : i.timestamp) ]

\* min(15, recentRatio * 30), times Scale; recent is at most 7 days before the clock.
CalculateTemporalConcentration(timestamps, clock) ==
    LET recentCount == Len(FilterSeq(timestamps,
                                     LAMBDA ts : clock - ts <= 7 * HoursPerDay))
    IN  IF Len(timestamps) = 0 THEN 0
        ELSE Min(15 * Scale, (30 * Scale * recentCount) \div Len(timestamps))

\* CalculateRiskScore with the density feature left uncapped.
CalculateRiskScoreUncapped(zoneData, totalIncidents, clock) ==
    LET incidentCount == Len(zoneData.incidents)
        severityScore == (40 * Scale * zoneData.highCount) \div incidentCount
        densityScore == (100 * Scale * incidentCount) \div totalIncidents
        crimeTypeScore == Min(15, Len(zoneData.crimeTypes) * 2) * Scale
        temporalScore == CalculateTemporalConcentration(zoneData.timestamps, clock)
    IN  severityScore + densityScore + crimeTypeScore + temporalScore

\* CalculateRiskScore with the severity feature taken from the low-severity count.
CalculateRiskScoreLowWeighted(zoneData, totalIncidents, clock) ==
    LET incidentCount == Len(zoneData.incidents)
        severityScore == (40 * Scale * zoneData.lowCount) \div incidentCount
        densityScore == Min(30 * Scale, (100 * Scale * incidentCount) \div totalIncidents)
        crimeTypeScore == Min(15, Len(zoneData.crimeTypes) * 2) * Scale
        temporalScore == CalculateTemporalConcentration(zoneData.timestamps, clock)
    IN  severityScore + densityScore + crimeTypeScore + temporalScore

\* The weighted sum of the four features, times Scale.
CalculateRiskScore(zoneData, totalIncidents, clock) ==
    LET incidentCount == Len(zoneData.incidents)
        severityScore == (40 * Scale * zoneData.highCount) \div incidentCount
        densityScore == Min(30 * Scale, (100 * Scale * incidentCount) \div totalIncidents)
        crimeTypeScore == Min(15, Len(zoneData.crimeTypes) * 2) * Scale
        temporalScore == CalculateTemporalConcentration(zoneData.timestamps, clock)
    IN  severityScore + densityScore + crimeTypeScore + temporalScore

\* CalculateTrend without the early return for fewer than two timestamps.
CalculateTrendUnguarded(timestamps, clock) ==
    LET oneWeekAgo == clock - 7 * HoursPerDay
        twoWeeksAgo == clock - 14 * HoursPerDay
        week1Count == Len(FilterSeq(timestamps, LAMBDA ts : ts >= oneWeekAgo /\ ts <= clock))
        week2Count == Len(FilterSeq(timestamps,
                                    LAMBDA ts : ts >= twoWeeksAgo /\ ts <= oneWeekAgo))
    IN  IF week2Count = 0 THEN (IF week1Count > 0 THEN 1000 ELSE 0)
        ELSE RoundDiv((week1Count - week2Count) * 1000, week2Count)

\* The week-over-week change in tenths of a percent.
CalculateTrend(timestamps, clock) ==
    LET oneWeekAgo == clock - 7 * HoursPerDay
        twoWeeksAgo == clock - 14 * HoursPerDay
        week1Count == Len(FilterSeq(timestamps, LAMBDA ts : ts >= oneWeekAgo /\ ts <= clock))
        week2Count == Len(FilterSeq(timestamps,
                                    LAMBDA ts : ts >= twoWeeksAgo /\ ts <= oneWeekAgo))
    IN  IF Len(timestamps) < 2 THEN 0
        ELSE IF week2Count = 0 THEN (IF week1Count > 0 THEN 1000 ELSE 0)
        ELSE RoundDiv((week1Count - week2Count) * 1000, week2Count)

\* The age of a timestamp as the text getTimeAgoString builds: a count and a unit.
GetTimeAgoString(date, clock) ==
    LET hours == clock - date
    IN  IF hours < 1 THEN [count |-> hours * 60, unit |-> "mins ago"]
        ELSE IF hours < 24 THEN [count |-> hours, unit |-> "hours ago"]
        ELSE [count |-> hours \div 24, unit |-> "days ago"]

\* ClampScore with the two bounds added up instead of nested.
ClampScoreSummed(score) == Max(0, score) + Min(100 * Scale, score)

\* Math.min(100, Math.max(0, score)), on scaled scores.
ClampScore(score) == Min(100 * Scale, Max(0, score))

\* The first three crime types of the zone's set, in insertion order.
TopCrimeTypes(crimeTypes) == SubSeq(crimeTypes, 1, Min(3, Len(crimeTypes)))

\* The RiskZone built for one entry of zoneMap, not yet ranked.
MakeZone(name, data, totalIncidents, clock) ==
    LET trend == CalculateTrend(data.timestamps, clock)
    IN  [ name |-> name,
          score |-> ClampScore(CalculateRiskScore(data, totalIncidents, clock)),
          incidents |-> Len(data.incidents),
          trend |-> trend,
          trendDirection |-> IF trend > 0 THEN "up" ELSE "down",
          timeAgo |-> IF data.incidents[1].timeAgo # ""
                      THEN data.incidents[1].timeAgo
                      ELSE GetTimeAgoString(data.timestamps[1], clock),
          crimeTypes |-> TopCrimeTypes(data.crimeTypes),
          rank |-> 0 ]

\* RankZones with a sort that puts a zone before the zones of equal score.
RankZonesUnstable(zs) ==
    LET reversed == [i \in 1..Len(zs) |-> zs[Len(zs) + 1 - i]]
        sorted == SortDesc(reversed, LAMBDA z : z.score)
    IN  [i \in 1..Len(sorted) |-> [sorted[i] EXCEPT !.rank = i]]

\* zones.sort by score, descending and stable, and rank = position.
RankZones(zs) ==
    LET sorted == SortDesc(zs, LAMBDA z : z.score)
    IN  [i \in 1..Len(sorted) |-> [sorted[i] EXCEPT !.rank = i]]

\* calculateRiskZones(incidents) called when the clock reads `clock`.
RiskZonesOf(incs, clock) ==
    LET names == Distinct(MapSeq(incs, LAMBDA i : i.zone))
        unranked == MapSeq(names,
                           LAMBDA name : MakeZone(name, ZoneData(incs, name), Len(incs), clock))
        ranked == RankZones(unranked)
    IN  IF Len(incs) = 0 THEN <<>>
        ELSE SubSeq(ranked, 1, Min(TopZones, Len(ranked)))

\* One call of calculateRiskZones on the incidents.
CalculateRiskZones ==
    /\ pc = "calculateRiskZones"
    /\ zones' = RiskZonesOf(incidents, now)
    /\ previous' = zones
    /\ calls' = calls + 1
    /\ pc' = "done"
    /\ UNCHANGED <<incidents, now, index, visited, queue, clusterIndices, clusters,
                   anomalies, elsewhere>>

\* The caller calls once more on the same incidents, MaxTick hours later at most.
CallAgain ==
    /\ pc = "done"
    /\ calls = 1
    /\ \E dt \in 0..MaxTick : now' = now + dt
    /\ pc' = "calculateRiskZones"
    /\ UNCHANGED <<incidents, calls, index, visited, queue, clusterIndices, clusters,
                   zones, anomalies, previous, elsewhere>>

RiskIncident(id, zone, sev, type, ts) ==
    [id |-> id, lat |-> 0, severity |-> sev, zone |-> zone, type |-> type,
     timestamp |-> ts, timeAgo |-> "5 mins ago"]

\* The clock of the first call; timestamps before, inside and on the edge of
\* the two 7-day windows.
Clock0 == 21 * HoursPerDay

RiskTimes == { Clock0 - 15 * HoursPerDay, Clock0 - 10 * HoursPerDay,
               Clock0 - 7 * HoursPerDay, Clock0 - HoursPerDay }

ZoneNames == << "A", "B", "C", "D", "E", "F", "G", "H", "I", "J", "K", "L", "M" >>

\* Few incidents; zone, severity and timestamp of each varied.
RiskInputTimed(n, zone, sev, ts) ==
    [i \in 1..n |-> RiskIncident(i, zone[i], sev[i], "theft", ts[i])]

\* Few incidents; zone and crime type of each varied, two of the type labels
\* differing in letter case only.
RiskInputTyped(n, zone, type) ==
    [i \in 1..n |-> RiskIncident(i, zone[i], "high", type[i], Clock0 - HoursPerDay)]

\* Three zones sharing the incidents; zone and severity of each varied.
RiskInputShares(n, zone, sev) ==
    [i \in 1..n |-> RiskIncident(i, zone[i], sev[i], "theft", Clock0 - HoursPerDay)]

\* Many zones of one incident each: more zones than the result keeps.
RiskInputManyZones(n, sev) ==
    [i \in 1..n |-> RiskIncident(i, ZoneNames[i], sev[i], "theft", Clock0 - HoursPerDay)]

InitRisk ==
    /\ \/ \E n \in 0..MaxRiskIncidents :
              \E zone \in [1..n -> {"A", "B"}], sev \in [1..n -> {"high", "low"}],
                 ts \in [1..n -> RiskTimes] :
                  incidents = RiskInputTimed(n, zone, sev, ts)
       \/ \E n \in 1..(MaxRiskIncidents + 1) :
              \E zone \in [1..n -> {"A", "B"}],
                 type \in [1..n -> {"theft", "Theft", "assault", "fraud"}] :
                  incidents = RiskInputTyped(n, zone, type)
       \/ \E n \in (MaxRiskIncidents + 1)..(MaxRiskIncidents + 1) :
              \E zone \in [1..n -> {"A", "B", "C"}], sev \in [1..n -> {"high", "low"}] :
                  incidents = RiskInputShares(n, zone, sev)
       \/ \E n \in (TopZones + 1)..MaxZones :
              \E sev \in [1..n -> {"high", "low"}] :
                  incidents = RiskInputManyZones(n, sev)
    /\ now = Clock0
    /\ pc = "calculateRiskZones"
    /\ component = "calculateRiskZones"
    /\ Idle

NextRisk == CalculateRiskZones

SpecRisk == InitRisk /\ [][NextRisk]_vars

\* Two calls on the same incidents, the clock read anew by the second.
InitRiskTwice ==
    /\ \E n \in 0..(MaxRiskIncidents - 1) :
           \E zone \in [1..n -> {"A", "B"}], sev \in [1..n -> {"high", "low"}],
              ts \in [1..n -> RiskTimes] :
               incidents = RiskInputTimed(n, zone, sev, ts)
    /\ now = Clock0
    /\ pc = "calculateRiskZones"
    /\ component = "calculateRiskZones"
    /\ Idle

NextRiskTwice ==
    \/ CalculateRiskZones
    \/ CallAgain

SpecRiskTwice == InitRiskTwice /\ [][NextRiskTwice]_vars

----------------------------------------------------------------------------
(* Anomaly detector: src/lib/ml/anomalyDetector.ts *)
(*                                                                         *)
(* A z-score is a quotient by a square root, so it is held as its sign and *)
(* its square num/den.  A score is held in tenths, rounded down, and a     *)
(* z-score handed to calculateConfidence in hundredths, rounded down.  The *)
(* description and the recommendation of an anomaly are texts and are left *)
(* out; detectedAt is the clock.                                           *)

MinAnomalyIncidents == 5

MinHourBuckets == 5

TopAnomalies == 20

Sgn(a) == IF a > 0 THEN 1 ELSE IF a < 0 THEN -1 ELSE 0

RECURSIVE SqrtBetween(_, _, _)
SqrtBetween(n, lo, hi) ==
    IF lo >= hi THEN lo
    ELSE LET mid == (lo + hi + 1) \div 2
         IN  IF mid * mid <= n THEN SqrtBetween(n, mid, hi)
             ELSE SqrtBetween(n, lo, mid - 1)

\* Math.floor(Math.sqrt(n)) of an integer n >= 0.
ISqrt(n) == SqrtBetween(n, 0, Min(n, 46340))

\* floor(c * num / den), the product kept within 32 bits.
FloorMulDiv(c, num, den) == c * (num \div den) + (c * (num % den)) \div den

SumSq(x) == SumSeq(MapSeq(x, LAMBDA v : v * v))

\* ss.sampleVariance throws for fewer than two data points.
SampleVarianceThrows(x) == Len(x) < 2

\* ss.sampleVariance(x) is VarianceNum(x) / (k * (k - 1)) for k data points.
VarianceNum(x) == Len(x) * SumSq(x) - SumSeq(x) * SumSeq(x)

RECURSIVE GCD(_, _)
GCD(a, b) == IF b = 0 THEN a ELSE GCD(b, a % b)

\* The z-score of sign s and square num/den, the quotient in lowest terms.
Reduced(s, num, den) ==
    LET g == GCD(num, den) IN [sign |-> s, num |-> num \div g, den |-> den \div g]

\* stdDev === 0 ? 0 : (v - mean) / stdDev, for the mean and the sample
\* standard deviation of x.
ZScore(v, x) ==
    LET k == Len(x)
        d == k * v - SumSeq(x)
        g == GCD(Abs(d), VarianceNum(x))
    IN  IF VarianceNum(x) = 0 THEN [sign |-> 0, num |-> 0, den |-> 1]
        ELSE Reduced(Sgn(d), (Abs(d) \div g) * Abs(d) * (k - 1), k * (VarianceNum(x) \div g))

\* z > a / b, for a, b > 0.
Exceeds(z, a, b) == z.sign > 0 /\ b * b * z.num > a * a * z.den

\* Math.min(100, z * factor) in tenths, for z > 0.
ScoreOf(z, factor) ==
    IF factor * factor * z.num >= 10000 * z.den THEN 1000
    ELSE ISqrt(FloorMulDiv(100 * factor * factor, z.num, z.den))

\* The z-scores, in hundredths, from which calculateConfidence returns 51, 52,
\* ..., 100: where (50 + 50 * erf(z / sqrt 2)) | 0 steps up.
ConfidenceSteps ==
    << 3, 6, 8, 11, 13, 16, 18, 21, 23, 26, 28, 31, 34, 36, 39, 42, 44, 47, 50, 53,
       56, 59, 62, 65, 68, 71, 74, 78, 81, 85, 88, 92, 96, 100, 104, 109, 113, 118,
       123, 129, 135, 141, 148, 156, 165, 176, 189, 206, 233, 825 >>

CalculateConfidence(z) ==
    LET centi == IF z.num >= 100 * z.den THEN 1000
                 ELSE ISqrt(FloorMulDiv(10000, z.num, z.den))
        percentile ==
            IF z.sign < 0 THEN 0
            ELSE 50 + Cardinality({i \in 1..Len(ConfidenceSteps) : ConfidenceSteps[i] <= centi})
    IN  Min(100, Max(50, percentile))

\* The groups of a Map filled in one pass: the keys in the order first seen,
\* each with its incidents in input order.
GroupBy(incs, Key(_)) ==
    LET keys == Distinct(MapSeq(incs, Key))
    IN  [g \in 1..Len(keys) |->
            [key |-> keys[g], incidents |-> FilterSeq(incs, LAMBDA i : Key(i) = keys[g])]]

GroupCounts(groups) == MapSeq(groups, LAMBDA g : Len(g.incidents))

\* Date.getHours and Date.getDay of a timestamp, in UTC; the epoch was a Thursday.
GetHours(ts) == ts % HoursPerDay

GetDay(ts) == ((ts \div HoursPerDay) + 4) % 7

\* String.toLowerCase on the crime types and the severities of the inputs.
ToLowerCase(type) ==
    CASE type = "Theft" -> "theft"
      [] type = "Assault" -> "assault"
      [] type = "Robbery" -> "robbery"
      [] type = "High" -> "high"
      [] type = "Medium" -> "medium"
      [] OTHER -> type

\* type.includes('drug') || type.includes('robbery') || type.includes('assault')
IncludesWatched(type) ==
    type \in {"drug-related", "robbery", "assault", "armed robbery", "sexual assault"}

\* DetectVolumeAnomalies with the threshold z > 1.5 in place of z > 2.
DetectVolumeAnomaliesLowThreshold(incs, clock) ==
    LET hourMap == GroupBy(incs, LAMBDA i : i.timestamp)
        hourCounts == GroupCounts(hourMap)
        spikes == FilterSeq(hourMap,
                            LAMBDA g : Exceeds(ZScore(Len(g.incidents), hourCounts), 3, 2))
    IN  IF Len(hourCounts) < MinHourBuckets THEN <<>>
        ELSE MapSeq(spikes, LAMBDA g :
                 LET z == ZScore(Len(g.incidents), hourCounts)
                 IN  [ type |-> "volume_spike",
                       severity |-> "high",
                       score |-> ScoreOf(z, 20),
                       affectedIncidents |-> g.incidents,
                       confidence |-> CalculateConfidence(z),
                       detectedAt |-> clock ])

DetectVolumeAnomalies(incs, clock) ==
    LET hourMap == GroupBy(incs, LAMBDA i : i.timestamp)
        hourCounts == GroupCounts(hourMap)
        spikes == FilterSeq(hourMap,
                            LAMBDA g : Exceeds(ZScore(Len(g.incidents), hourCounts), 2, 1))
    IN  IF Len(hourCounts) < MinHourBuckets THEN <<>>
        ELSE MapSeq(spikes, LAMBDA g :
                 LET z == ZScore(Len(g.incidents), hourCounts)
                 IN  [ type |-> "volume_spike",
                       severity |-> "high",
                       score |-> ScoreOf(z, 20),
                       affectedIncidents |-> g.incidents,
                       confidence |-> CalculateConfidence(z),
                       detectedAt |-> clock ])

SeverityScores(zoneIncidents) ==
    MapSeq(zoneIncidents, LAMBDA i : IF i.severity = "high" THEN 3
                                     ELSE IF i.severity = "medium" THEN 2 ELSE 1)

\* (mean - 2) / (stdDev || 0.5) for the severity scores x of a zone.
SeverityZScore(x) ==
    LET n == Len(x)
        d == SumSeq(x) - 2 * n
    IN  IF VarianceNum(x) = 0 THEN [sign |-> Sgn(d), num |-> 4 * d * d, den |-> n * n]
        ELSE [sign |-> Sgn(d), num |-> d * d * (n - 1), den |-> n * VarianceNum(x)]

DetectSeverityThrows(incs) ==
    \E g \in Range(GroupBy(incs, LAMBDA i : i.zone)) : SampleVarianceThrows(g.incidents)

DetectSeverityAnomalies(incs, clock) ==
    LET zoneMap == GroupBy(incs, LAMBDA i : i.zone)
        spikes == FilterSeq(zoneMap, LAMBDA g :
                      LET x == SeverityScores(g.incidents)
                      IN  /\ SumSeq(x) > 2 * Len(x)
                          /\ Exceeds(SeverityZScore(x), 3, 2))
    IN  MapSeq(spikes, LAMBDA g :
            LET z == SeverityZScore(SeverityScores(g.incidents))
            IN  [ type |-> "severity_spike",
                  severity |-> "critical",
                  score |-> ScoreOf(z, 25),
                  affectedIncidents |-> g.incidents,
                  confidence |-> CalculateConfidence(z),
                  detectedAt |-> clock ])

\* Haversine distance in metres, as in the hotspot detector.
GetDistance(point1, point2) == GridMetres * Abs(point2.lat - point1.lat)

NearbyIncidents(incs, k) ==
    LET others == FilterSeq([j \in 1..Len(incs) |-> j],
                            LAMBDA j : j # k /\ GetDistance(incs[k], incs[j]) < 1000)
    IN  MapSeq(others, LAMBDA j : incs[j])

\* DetectGeographicAnomalies with the incident itself counted among its nearby ones.
DetectGeographicAnomaliesCountingSelf(incs, clock) ==
    LET around(k) == FilterSeq(incs, LAMBDA other : GetDistance(incs[k], other) < 1000)
        dense == FilterSeq([k \in 1..Len(incs) |-> k], LAMBDA k : Len(around(k)) > 10)
    IN  MapSeq(dense, LAMBDA k :
            LET nearby == around(k)
                z == [sign |-> 1, num |-> (Len(nearby) - 5) * (Len(nearby) - 5), den |-> 9]
            IN  [ type |-> "geographic_cluster",
                  severity |-> "high",
                  score |-> ScoreOf(z, 15),
                  affectedIncidents |-> <<incs[k]>> \o SubSeq(nearby, 1, Min(5, Len(nearby))),
                  confidence |-> CalculateConfidence(z),
                  detectedAt |-> clock ])

DetectGeographicAnomalies(incs, clock) ==
    LET dense == FilterSeq([k \in 1..Len(incs) |-> k],
                           LAMBDA k : Len(NearbyIncidents(incs, k)) > 10)
    IN  MapSeq(dense, LAMBDA k :
            LET nearby == NearbyIncidents(incs, k)
                z == [sign |-> 1, num |-> (Len(nearby) - 5) * (Len(nearby) - 5), den |-> 9]
            IN  [ type |-> "geographic_cluster",
                  severity |-> "high",
                  score |-> ScoreOf(z, 15),
                  affectedIncidents |-> <<incs[k]>> \o SubSeq(nearby, 1, Min(5, Len(nearby))),
                  confidence |-> CalculateConfidence(z),
                  detectedAt |-> clock ])

\* DetectTemporalAnomalies with the score count * 15 left uncapped.
DetectTemporalAnomaliesUncapped(incs, clock) ==
    LET dayHourMap == GroupBy(incs, LAMBDA i : <<GetDay(i.timestamp), GetHours(i.timestamp)>>)
        late == FilterSeq(dayHourMap, LAMBDA g :
                    /\ (g.key[2] >= 22 \/ g.key[2] < 5)
                    /\ Len(g.incidents) > 3)
    IN  MapSeq(late, LAMBDA g :
            [ type |-> "temporal_anomaly",
              severity |-> "medium",
              score |-> 10 * Len(g.incidents) * 15,
              affectedIncidents |-> g.incidents,
              confidence |-> 75 + Min(25, Len(g.incidents) * 10),
              detectedAt |-> clock ])

DetectTemporalAnomalies(incs, clock) ==
    LET dayHourMap == GroupBy(incs, LAMBDA i : <<GetDay(i.timestamp), GetHours(i.timestamp)>>)
        late == FilterSeq(dayHourMap, LAMBDA g :
                    /\ (g.key[2] >= 22 \/ g.key[2] < 5)
                    /\ Len(g.incidents) > 3)
    IN  MapSeq(late, LAMBDA g :
            [ type |-> "temporal_anomaly",
              severity |-> "medium",
              score |-> 10 * Min(100, Len(g.incidents) * 15),
              affectedIncidents |-> g.incidents,
              confidence |-> 75 + Min(25, Len(g.incidents) * 10),
              detectedAt |-> clock ])

DetectCrimeTypeThrows(incs) ==
    SampleVarianceThrows(GroupBy(incs, LAMBDA i : ToLowerCase(i.type)))

DetectCrimeTypeAnomalies(incs, clock) ==
    LET crimeTypeMap == GroupBy(incs, LAMBDA i : ToLowerCase(i.type))
        typeCounts == GroupCounts(crimeTypeMap)
        spikes == FilterSeq(crimeTypeMap, LAMBDA g :
                      /\ Exceeds(ZScore(Len(g.incidents), typeCounts), 2, 1)
                      /\ IncludesWatched(g.key))
    IN  MapSeq(spikes, LAMBDA g :
            LET z == ZScore(Len(g.incidents), typeCounts)
            IN  [ type |-> "crime_type_spike",
                  severity |-> "high",
                  score |-> ScoreOf(z, 20),
                  affectedIncidents |-> SubSeq(g.incidents, 1, Min(5, Len(g.incidents))),
                  confidence |-> CalculateConfidence(z),
                  detectedAt |-> clock ])

\* What the five detectors push, in the order of the calls.
AllAnomalies(incs, clock) ==
    DetectVolumeAnomalies(incs, clock)
        \o DetectSeverityAnomalies(incs, clock)
        \o DetectGeographicAnomalies(incs, clock)
        \o DetectTemporalAnomalies(incs, clock)
        \o DetectCrimeTypeAnomalies(incs, clock)

\* AnomaliesOf with the first 20 taken before the sort instead of after it.
AnomaliesOfSlicedFirst(incs, clock) ==
    LET all == AllAnomalies(incs, clock)
        sliced == SubSeq(all, 1, Min(TopAnomalies, Len(all)))
    IN  IF Len(incs) < MinAnomalyIncidents THEN [threw |-> FALSE, value |-> <<>>]
        ELSE IF DetectSeverityThrows(incs) \/ DetectCrimeTypeThrows(incs)
        THEN [threw |-> TRUE, value |-> <<>>]
        ELSE [threw |-> FALSE, value |-> SortDesc(sliced, LAMBDA a : a.score)]

\* AnomaliesOf without the early return for fewer than 5 incidents.
AnomaliesOfUnguarded(incs, clock) ==
    LET all == AllAnomalies(incs, clock)
        sorted == SortDesc(all, LAMBDA a : a.score)
    IN  IF DetectSeverityThrows(incs) \/ DetectCrimeTypeThrows(incs)
        THEN [threw |-> TRUE, value |-> <<>>]
        ELSE [threw |-> FALSE,
              value |-> SubSeq(sorted, 1, Min(TopAnomalies, Len(sorted)))]

\* detectAnomalies(incidents) called when the clock reads `clock`: the error
\* thrown, or the anomalies returned.
AnomaliesOf(incs, clock) ==
    LET all == AllAnomalies(incs, clock)
        sorted == SortDesc(all, LAMBDA a : a.score)
    IN  IF Len(incs) < MinAnomalyIncidents THEN [threw |-> FALSE, value |-> <<>>]
        ELSE IF DetectSeverityThrows(incs) \/ DetectCrimeTypeThrows(incs)
        THEN [threw |-> TRUE, value |-> <<>>]
        ELSE [threw |-> FALSE,
              value |-> SubSeq(sorted, 1, Min(TopAnomalies, Len(sorted)))]

\* One call of detectAnomalies on the incidents.
DetectAnomalies ==
    /\ pc = "detectAnomalies"
    /\ anomalies' = AnomaliesOf(incidents, now)
    /\ calls' = calls + 1
    /\ pc' = "done"
    /\ UNCHANGED <<incidents, now, index, visited, queue, clusterIndices, clusters,
                   zones, previous, elsewhere>>

AnomalyIncident(id, zone, sev, type, ts) ==
    [id |-> id, lat |-> 0, severity |-> sev, zone |-> zone, type |-> type,
     timestamp |-> ts, timeAgo |-> "5 mins ago"]

TypePool == << "robbery", "theft", "Assault", "fraud", "vandalism", "burglary" >>

\* Incidents of one place; zone and severity of each varied; the crime types
\* cycle through the first `types` of TypePool; the timestamps go back from
\* `first` in steps of `step` hours.
AnomalyInput(n, zone, sev, types, first, step) ==
    [i \in 1..n |-> AnomalyIncident(i, zone[i], sev[i], TypePool[((i - 1) % types) + 1],
                                    first - (i - 1) * step)]

\* A crowd at one place and in one hour: the first inA incidents in zone A, of
\* severity sevA, the others in zone B, of severity sevB.
CrowdInput(n, inA, sevA, sevB, first) ==
    AnomalyInput(n, [i \in 1..n |-> IF i <= inA THEN "A" ELSE "B"],
                 [i \in 1..n |-> IF i <= inA THEN sevA ELSE sevB], 2, first, 0)

\* k hour buckets at distinct places: 10 * c incidents in the hour `first`,
\* then c incidents in each of the k - 1 hours before it.
SpikeInput(k, c, first) ==
    [i \in 1..((k + 9) * c) |->
        [AnomalyIncident(i, "A", "medium", TypePool[(i % 2) + 1],
                         IF i <= 10 * c THEN first ELSE first - 1 - ((i - 10 * c - 1) \div c))
         EXCEPT !.lat = i]]

\* One crime type with n - 5 incidents and five types with one incident each.
DominantTypeInput(n, type, first) ==
    [i \in 1..n |-> AnomalyIncident(i, "A", "medium",
                                     IF i <= 5 THEN TypePool[i + 1] ELSE type, first)]

\* A crowd of `near` incidents at one place and `far` incidents at places of
\* their own, a grid step and more away, all of one zone and of one hour.
ScatteredInput(near, far, first) ==
    [i \in 1..(near + far) |->
        [AnomalyIncident(i, "A", "medium", TypePool[(i % 2) + 1], first)
         EXCEPT !.lat = IF i <= near THEN 0 ELSE i - near]]

InitAnomaly ==
    /\ \/ \E n \in (MinAnomalyIncidents - 1)..MaxAnomalyIncidents :
              \E zone \in [1..n -> {"A", "B"}], sev \in [1..n -> {"high", "medium"}],
                 types \in {1, 2, 6}, first \in {Clock0 - 1, Clock0 - 12}, step \in {0, 1} :
                  incidents = AnomalyInput(n, zone, sev, types, first, step)
       \/ \E n \in (TopAnomalies - 8)..MaxCrowd :
              \E inA \in {n - 2, n}, sevA \in {"high", "medium"}, sevB \in {"high", "medium"},
                 first \in {Clock0 - 1, Clock0 - 12} :
                  incidents = CrowdInput(n, inA, sevA, sevB, first)
       \/ \E k \in (MinHourBuckets - 1)..MaxBuckets :
              \E c \in 1..MaxBaseCount :
                  incidents = SpikeInput(k, c, Clock0 - 12)
       \/ \E n \in (MinAnomalyIncidents + 2)..(MaxAnomalyIncidents + 3) :
              \E type \in {"robbery", "Assault", "theft"} :
                  incidents = DominantTypeInput(n, type, Clock0 - 12)
       \/ \E near \in (MaxCrowd - 11)..(MaxCrowd - 9), far \in 0..2 :
              incidents = ScatteredInput(near, far, Clock0 - 12)
    /\ now = Clock0
    /\ pc = "detectAnomalies"
    /\ component = "detectAnomalies"
    /\ Idle

NextAnomaly == DetectAnomalies

SpecAnomaly == InitAnomaly /\ [][NextAnomaly]_vars

----------------------------------------------------------------------------
(* Crime classifier: src/lib/ml/crimeClassifier.ts *)
(*                                                                         *)
(* A mean is held as the sum and the count it divides; avgSeverity of a    *)
(* cluster is held in hundredths, expectedChange in tenths, confidence in  *)
(* percent and seasonalityFactor in hundredths, as the source rounds them. *)
(* Where the exact value lies on a rounding or threshold tie, the doubles  *)
(* of the source decide: the classifier's ties are listed, the sign of the *)
(* regression's rounding error is an input of the prediction.              *)

CRIME_SEVERITY_MAP ==
    ("drug-related" :> 9) @@ ("robbery" :> 9) @@ ("homicide" :> 10) @@ ("assault" :> 8)
        @@ ("burglary" :> 7) @@ ("theft" :> 5) @@ ("vandalism" :> 3) @@ ("fraud" :> 6)
        @@ ("cybercrime" :> 6) @@ ("kidnapping" :> 10)

\* CRIME_SEVERITY_MAP[type] ?? (high ? 7 : medium ? 5 : 3)
SeverityWeight(type, severity) ==
    IF type \in DOMAIN CRIME_SEVERITY_MAP THEN CRIME_SEVERITY_MAP[type]
    ELSE IF severity = "high" THEN 7 ELSE IF severity = "medium" THEN 5 ELSE 3

\* What crimeMap holds for a lower-cased type once the forEach is over.
CrimeData(incs, type) ==
    LET typeIncidents == FilterSeq(incs, LAMBDA i : ToLowerCase(i.type) = type)
    IN  [ incidents |-> typeIncidents,
          severities |-> MapSeq(typeIncidents, LAMBDA i : SeverityWeight(type, i.severity)),
          locations |-> MapSeq(typeIncidents, LAMBDA i : i.lat) ]

GetSeverityDistribution(incs) ==
    [ high |-> Len(FilterSeq(incs, LAMBDA i : i.severity = "high")),
      medium |-> Len(FilterSeq(incs, LAMBDA i : i.severity = "medium")),
      low |-> Len(FilterSeq(incs, LAMBDA i : i.severity \notin {"high", "medium"})) ]

\* min(1, stdDev + mean / 0.6) of the distances from the centre, which are
\* |n * lat - sum| / n grid steps: held as the count n, the sum of the
\* |n * lat - sum| and the sum of their squares.
CalculateSpatialDispersion(locations) ==
    LET n == Len(locations)
        sum == SumSeq(locations)
        deviations == MapSeq(locations, LAMBDA lat : Abs(n * lat - sum))
    IN  IF n < 2 THEN [count |-> n, sumOfDistances |-> 0, sumOfSquares |-> 0]
        ELSE [count |-> n, sumOfDistances |-> SumSeq(deviations),
              sumOfSquares |-> SumSq(deviations)]

\* The three zones with the most incidents, ties in the order first seen.
GetTopZones(incs) ==
    LET zoneMap == GroupBy(incs, LAMBDA i : i.zone)
        counted == MapSeq(zoneMap, LAMBDA g : [zone |-> g.key, count |-> Len(g.incidents)])
        sorted == SortDesc(counted, LAMBDA z : z.count)
    IN  SubSeq(sorted, 1, Min(3, Len(sorted)))

\* The sums and counts of severities for which severityScore * 0.6 +
\* volumeScore * 0.4 is 0.5 exactly and evaluates to 0.49999999999999994 in
\* doubles: (19/3 / 10) * 0.6 + 0.3 * 0.4 and (13/3 / 10) * 0.6 + 0.6 * 0.4.
DoublesFallShort == { <<190, 30>>, <<260, 60>> }

\* combinedScore = (mean / 10) * 0.6 + min(1, count / 100) * 0.4, compared
\* with 0.75, 0.5 and 0.25 after multiplying through by 1000 * count.
DetermineRiskLevel(data) ==
    LET count == Len(data.incidents)
        combined == 60 * SumSeq(data.severities) + 4 * count * Min(100, count)
        short == <<SumSeq(data.severities), count>> \in DoublesFallShort
    IN  IF combined >= 750 * count THEN "critical"
        ELSE IF combined >= 500 * count /\ ~short THEN "high"
        ELSE IF combined >= 250 * count THEN "medium"
        ELSE "low"

\* The CrimeCluster of one entry of crimeMap.
MakeCrimeCluster(type, data, total) ==
    [ crimeType |-> type,
      count |-> Len(data.incidents),
      percentOfTotal |-> [num |-> 100 * Len(data.incidents), den |-> total],
      avgSeverity |-> RoundDiv(10 * SumSeq(data.severities), Len(data.severities)),
      severityDistribution |-> GetSeverityDistribution(data.incidents),
      spatialDispersion |-> CalculateSpatialDispersion(data.locations),
      topZones |-> GetTopZones(data.incidents),
      riskLevel |-> DetermineRiskLevel(data) ]

\* classifyCrimes(incidents)
ClassificationOf(incs) ==
    LET types == Distinct(MapSeq(incs, LAMBDA i : ToLowerCase(i.type)))
        unsorted == MapSeq(types, LAMBDA t : MakeCrimeCluster(t, CrimeData(incs, t), Len(incs)))
        sorted == SortDesc(unsorted, LAMBDA c : c.count)
    IN  IF Len(incs) = 0
        THEN [clusters |-> <<>>, crimeTypeStats |-> <<>>, topCrimeTypes |-> <<>>]
        ELSE [ clusters |-> sorted,
               crimeTypeStats |->
                   MapSeq(sorted, LAMBDA c : [type |-> c.crimeType, count |-> c.count,
                                              avgSeverity |-> c.avgSeverity]),
               topCrimeTypes |->
                   MapSeq(SubSeq(sorted, 1, Min(5, Len(sorted))),
                          LAMBDA c : [type |-> c.crimeType, count |-> c.count,
                                      percentage |-> c.percentOfTotal]) ]

\* One call of classifyCrimes on the incidents.
ClassifyCrimes ==
    /\ pc = "classifyCrimes"
    /\ classification' = ClassificationOf(incidents)
    /\ calls' = calls + 1
    /\ pc' = "done"
    /\ UNCHANGED <<incidents, now, index, visited, queue, clusterIndices, clusters, zones,
                   anomalies, previous, component, trendAnalysis, working, dashboard>>

\* The three hours with the most incidents, each as its first and last hour.
IdentifyPeakHours(incs) ==
    LET hourMap == GroupBy(incs, LAMBDA i : GetHours(i.timestamp))
        sorted == SortDesc(hourMap, LAMBDA g : Len(g.incidents))
    IN  MapSeq(SubSeq(sorted, 1, Min(3, Len(sorted))),
               LAMBDA g : <<g.key, (g.key + 1) % 24>>)

\* Twice the numerator of the slope: the sum of (2 * x - (n - 1)) * y over
\* x = 0..n-1, and four times its denominator.
SlopeNum(counts) ==
    SumSeq([i \in 1..Len(counts) |-> (2 * (i - 1) - (Len(counts) - 1)) * counts[i]])

SlopeDen(counts) ==
    SumSeq([i \in 1..Len(counts) |->
               (2 * (i - 1) - (Len(counts) - 1)) * (2 * (i - 1) - (Len(counts) - 1))])

\* Math.round(a / b) of a quotient the doubles hold with an error of the sign
\* `error`: on a tie a negative error rounds down.
RoundDivWithError(a, b, error) ==
    IF (2 * a + b) % (2 * b) = 0 /\ error < 0 THEN RoundDiv(a, b) - 1 ELSE RoundDiv(a, b)

\* a / b is a whole number and a half: Math.round is on a tie.
OnTie(a, b) == b # 0 /\ (2 * a + b) % (2 * b) = 0

\* The signs the rounding error of the slope can have where the sign decides
\* the result: the slope is 0.5 in size, or its tenths are on a tie.  The
\* numerator is exact when the mean of the counts is.
SlopeErrors(counts) ==
    IF SumSeq(counts) % Len(counts) = 0 THEN {0}
    ELSE IF \/ 4 * Abs(SlopeNum(counts)) = SlopeDen(counts)
            \/ OnTie(20 * SlopeNum(counts), SlopeDen(counts))
    THEN {-1, 0, 1}
    ELSE {0}

\* The signs the rounding error of R squared can have where the sign decides
\* the result: its percents are on a tie.
FitErrors(counts) ==
    IF OnTie(100 * SlopeNum(counts) * SlopeNum(counts) * Len(counts),
             SlopeDen(counts) * VarianceNum(counts))
    THEN {-1, 0, 1}
    ELSE {0}

PredictNextWeekTrend(counts, slopeError, fitError) ==
    LET n == Len(counts)
        num == 2 * SlopeNum(counts)
        den == SlopeDen(counts)
        ssTot == VarianceNum(counts)
        stable == \/ 2 * Abs(num) < den
                  \/ 2 * Abs(num) = den /\ Sgn(num) * slopeError < 0
    IN  IF n < 2 THEN [trend |-> "stable", confidence |-> 0, expectedChange |-> 0]
        ELSE [ trend |-> IF stable THEN "stable"
                         ELSE IF num > 0 THEN "increasing" ELSE "decreasing",
               confidence |-> IF ssTot = 0 THEN 0
                              ELSE RoundDivWithError(100 * SlopeNum(counts) * SlopeNum(counts) * n,
                                                     den * ssTot, fitError),
               expectedChange |-> RoundDivWithError(10 * num, den, slopeError) ]

\* Math.round((stdDev / mean) * 100), the hundredths of the seasonality
\* factor: the rounded square root of 10000 * n * V / ((n - 1) * T^2) for the
\* sum T of the n counts and V = n * sum of squares - T^2.
SeasonalityFactor(counts) ==
    LET n == Len(counts)
        total == SumSeq(counts)
        g == GCD(VarianceNum(counts), (n - 1) * total * total)
    IN  IF total = 0 THEN 100
        ELSE (ISqrt(FloorMulDiv(40000 * n, VarianceNum(counts) \div g,
                                ((n - 1) * total * total) \div g)) + 1) \div 2

DayNames == << "Sunday", "Monday", "Tuesday", "Wednesday", "Thursday", "Friday", "Saturday" >>

\* The statistics of one day of the week.
DayStats(dayIncidents) ==
    [ count |-> Len(dayIncidents),
      avgSeverity |-> [sum |-> SumSeq(SeverityScores(dayIncidents)), count |-> Len(dayIncidents)],
      peakHours |-> IdentifyPeakHours(dayIncidents) ]

IncidentCounts(incs) ==
    [d \in 1..Len(DayNames) |-> Len(FilterSeq(incs, LAMBDA i : GetDay(i.timestamp) = d - 1))]

\* analyzeTrend(incidents), the regression's doubles erring by the signs given.
TrendAnalysisOf(incs, slopeError, fitError) ==
    IF Len(incs) = 0 THEN [byDay |-> <<>>, prediction |-> <<>>, seasonalityFactor |-> 100]
    ELSE [ byDay |-> [d \in 1..Len(DayNames) |->
                         DayStats(FilterSeq(incs, LAMBDA i : GetDay(i.timestamp) = d - 1))],
           prediction |-> PredictNextWeekTrend(IncidentCounts(incs), slopeError, fitError),
           seasonalityFactor |-> SeasonalityFactor(IncidentCounts(incs)) ]

\* One call of analyzeTrend on the incidents.
AnalyzeTrend ==
    /\ pc = "analyzeTrend"
    /\ \E slopeError \in SlopeErrors(IncidentCounts(incidents)),
          fitError \in FitErrors(IncidentCounts(incidents)) :
           trendAnalysis' = TrendAnalysisOf(incidents, slopeError, fitError)
    /\ calls' = calls + 1
    /\ pc' = "done"
    /\ UNCHANGED <<incidents, now, index, visited, queue, clusterIndices, clusters, zones,
                   anomalies, previous, component, classification, working, dashboard>>

ClassifiedIncident(id, lat, zone, sev, type, ts) ==
    [id |-> id, lat |-> lat, severity |-> sev, zone |-> zone, type |-> type,
     timestamp |-> ts, timeAgo |-> "5 mins ago"]

\* Few incidents at two places and in two zones by turns; type and severity
\* of each varied.
ClassifyInput(n, type, sev) ==
    [i \in 1..n |-> ClassifiedIncident(i, i % 2, ZoneNames[(i % 2) + 1], sev[i], type[i],
                                       Clock0 - i)]

\* Many incidents of one type, the first `high` of them of high severity and
\* the others of medium severity.
BulkInput(n, type, high) ==
    [i \in 1..n |-> ClassifiedIncident(i, i % 2, ZoneNames[(i % 3) + 1],
                                       IF i <= high THEN "high" ELSE "medium", type,
                                       Clock0 - i)]

InitClassify ==
    /\ \/ \E n \in 0..MaxClassified :
              \E type \in [1..n -> {"assault", "Assault", "vandalism", "arson"}],
                 sev \in [1..n -> Severities] :
                  incidents = ClassifyInput(n, type, sev)
       \/ \E n \in (MaxBulk - 9)..MaxBulk :
              \E type \in {"homicide", "arson", "assault"}, high \in {0, n - 10, n} :
                  incidents = BulkInput(n, type, high)
    /\ now = Clock0
    /\ pc = "classifyCrimes"
    /\ component = "classifyCrimes"
    /\ Idle

NextClassify == ClassifyCrimes

SpecClassify == InitClassify /\ [][NextClassify]_vars

\* The incidents of a week with counts[d] incidents on day d of the week
\* (1 = Sunday), at hours and of severities that go round by turns.
RECURSIVE WeekInput(_, _)
WeekInput(counts, d) ==
    IF d > Len(counts) THEN <<>>
    ELSE [j \in 1..counts[d] |->
             ClassifiedIncident(10 * d + j, 0, "A", IF j % 3 = 1 THEN "high"
                                                    ELSE IF j % 3 = 2 THEN "medium" ELSE "low",
                                "theft", (d + 2) * HoursPerDay + 9 + (j % 2))]
         \o WeekInput(counts, d + 1)

InitTrend ==
    /\ \/ \E early \in [1..4 -> 0..1], late \in [5..7 -> 0..MaxPerDay] :
              incidents = WeekInput([d \in 1..7 |-> IF d <= 4 THEN early[d] ELSE late[d]], 1)
       \/ \E base \in 0..1, step \in 0..1, rising \in BOOLEAN :
              incidents = WeekInput([d \in 1..7 |-> base + step * (IF rising THEN d - 1
                                                                   ELSE 7 - d)], 1)
    /\ now = Clock0
    /\ pc = "analyzeTrend"
    /\ component = "analyzeTrend"
    /\ Idle

NextTrend == AnalyzeTrend

SpecTrend == InitTrend /\ [][NextTrend]_vars

----------------------------------------------------------------------------
(* The five components on one incident collection *)

Components ==
    {"detectHotspots", "calculateRiskZones", "detectAnomalies", "classifyCrimes", "analyzeTrend"}

\* Three kinds of incident: a recent robbery and a theft of the day before at
\* one place of zone A, and an assault of the week before elsewhere, in zone B.
EngineIncident(id, kind) ==
    IF kind = 1 THEN ClassifiedIncident(id, 0, "A", "high", "robbery", Clock0 - 1)
    ELSE IF kind = 2 THEN ClassifiedIncident(id, 0, "A", "medium", "Theft", Clock0 - 25)
    ELSE ClassifiedIncident(id, 1, "B", "low", "assault", Clock0 - 8 * HoursPerDay)

EngineInput(n, kind) == [i \in 1..n |-> EngineIncident(i, kind[i])]

InitEngine ==
    /\ \E n \in 0..MaxEngineIncidents :
           \E kind \in [1..n -> 1..3] : incidents = EngineInput(n, kind)
    /\ now = Clock0
    /\ component \in Components
    /\ pc = component
    /\ Idle

NextEngine ==
    \/ NextHotspot
    \/ CalculateRiskZones
    \/ DetectAnomalies
    \/ ClassifyCrimes
    \/ AnalyzeTrend

SpecEngine == InitEngine /\ [][NextEngine]_vars

----------------------------------------------------------------------------
(* Dashboard: src/lib/getDashboardData.ts *)

\* Array.prototype.push(...) of each sequence of seqs in turn.
RECURSIVE Concat(_)
Concat(seqs) ==
    IF Len(seqs) = 0 THEN <<>>
    ELSE IF Len(seqs) = 1 THEN seqs[1]
    ELSE Concat(SubSeq(seqs, 1, Len(seqs) \div 2))
             \o Concat(SubSeq(seqs, Len(seqs) \div 2 + 1, Len(seqs)))

\* The while loop of expandCluster from a queue on, the whole queue at a time:
\* its unvisited indices join the cluster in queue order, and the neighbours
\* of those with minPoints neighbours make the next queue.
RECURSIVE ExpandCluster(_, _, _, _)
ExpandCluster(incs, q, seen, members) ==
    LET joining == Distinct(FilterSeq(q, LAMBDA idx : idx \notin seen))
        pushed == Concat(MapSeq(joining, LAMBDA idx :
                             LET currentNeighbors == GetNeighbors(incs, idx)
                             IN  IF Len(currentNeighbors) >= MinPoints
                                 THEN currentNeighbors ELSE <<>>))
    IN  IF joining = <<>> THEN [visited |-> seen, indices |-> members]
        ELSE ExpandCluster(incs, pushed, seen \cup Range(joining), members \o joining)

\* incidents.forEach of detectHotspots from position i on, the visited skipped.
RECURSIVE ScanIncidents(_, _, _, _)
ScanIncidents(incs, i, seen, found) ==
    LET rest == {j \in i..Len(incs) : j \notin seen}
        first == CHOOSE j \in rest : \A k \in rest : j <= k
        neighbors == GetNeighbors(incs, first)
        grown == ExpandCluster(incs, neighbors, seen \cup {first}, <<first>>)
    IN  IF rest = {} THEN found
        ELSE IF Len(neighbors) >= MinPoints
        THEN ScanIncidents(incs, first + 1, grown.visited,
                           Append(found, MakeCluster(incs, grown.indices)))
        ELSE ScanIncidents(incs, first + 1, seen \cup {first}, found)

\* detectHotspots(incidents): what the steps DetectHotspots .. ReturnHotspots return.
HotspotsOf(incs) ==
    IF Len(incs) < MinPoints THEN <<>>
    ELSE RankClusters(ScanIncidents(incs, 1, {}, <<>>))

\* Array.prototype.slice(0, k)
FirstOf(s, k) == SubSeq(s, 1, Min(k, Len(s)))

Has(document, field) == field \in DOMAIN document

\* Math.floor(diffMs / 60000) minutes, then hours, then days, as text.
FormatTimeAgo(date, clock) ==
    LET minutes == (clock - date) * 60
        hours == clock - date
    IN  IF minutes < 60 THEN ToString(minutes) \o " mins ago"
        ELSE IF hours < 24 THEN ToString(hours) \o " hours ago"
        ELSE ToString(hours \div 24) \o " days ago"

\* The Incident built from a document of the collection; a document has no
\* time field, so that its date stands as it is.
NormalizeIncident(incident, clock) ==
    LET baseTimestamp == IF Has(incident, "date") THEN incident.date
                         ELSE IF Has(incident, "timestamp") THEN incident.timestamp
                         ELSE clock
        severityRaw == IF Has(incident, "severity") THEN incident.severity
                       ELSE IF Has(incident, "level") THEN incident.level
                       ELSE "low"
    IN  [ id |-> IF Has(incident, "_id") THEN incident._id
                 ELSE IF Has(incident, "id") THEN incident.id ELSE "",
          lat |-> IF Has(incident, "lat") THEN incident.lat ELSE incident.latitude,
          type |-> IF Has(incident, "type") THEN incident.type
                   ELSE IF Has(incident, "crime_type") THEN incident.crime_type
                   ELSE "unknown",
          severity |-> ToLowerCase(severityRaw),
          timeAgo |-> IF Has(incident, "timeAgo") THEN incident.timeAgo
                      ELSE FormatTimeAgo(baseTimestamp, clock),
          zone |-> IF Has(incident, "zone") THEN incident.zone
                   ELSE IF Has(incident, "area") THEN incident.area
                   ELSE IF Has(incident, "city") THEN incident.city
                   ELSE "Unknown",
          timestamp |-> baseTimestamp ]

\* The first three of the zones the risk analyzer returns.
DashboardRiskZones(incs, clock) == FirstOf(RiskZonesOf(incs, clock), 3)

\* The four metrics; a text is held as the sequence of its pieces.
CalculateMetrics(incs, riskZones, trendPrediction) ==
    LET total == Len(incs)
        highRiskZones == Len(FilterSeq(riskZones, LAMBDA z : z.score >= 80 * Scale))
        changePercent ==
            IF trendPrediction # <<>> /\ trendPrediction.expectedChange > 0
            THEN <<"+", RoundDiv(Abs(trendPrediction.expectedChange), 10), "%">>
            ELSE IF trendPrediction # <<>>
            THEN <<RoundDiv(trendPrediction.expectedChange, 10), "%">>
            ELSE <<0, "%">>
    IN  << [ title |-> "Total Incidents",
             value |-> <<total>>,
             subtext |-> <<total, " reported">>,
             trend |-> "up" ],
           [ title |-> "Crime Rate Change",
             value |-> changePercent,
             subtext |-> IF trendPrediction # <<>>
                         THEN <<trendPrediction.trend, " (", trendPrediction.confidence,
                                "% confidence)">>
                         ELSE <<"N/A">>,
             trend |-> IF trendPrediction # <<>> /\ trendPrediction.expectedChange > 0
                       THEN "up" ELSE "down" ],
           [ title |-> "High-Risk Zones",
             value |-> <<highRiskZones>>,
             subtext |-> <<"requiring attention">>,
             trend |-> IF highRiskZones > 5 THEN "up" ELSE "down" ],
           [ title |-> "Anomalies Detected",
             value |-> <<Min(Len(incs), Max(0, RoundDiv(Len(incs), 10)))>>,
             subtext |-> <<"suspicious patterns">>,
             trend |-> "up" ] >>

Days == << "Mon", "Tue", "Wed", "Thu", "Fri", "Sat", "Sun" >>

CountOfType(dayIncidents, type) ==
    Len(FilterSeq(dayIncidents, LAMBDA i : ToLowerCase(i.type) = type))

\* days.forEach((day, dayIndex) => ...): the point of days[dayIndex] counts the
\* incidents whose getDay() is dayIndex.
CalculateTrends(incs) ==
    [d \in 1..Len(Days) |->
        LET dayIncidents == FilterSeq(incs, LAMBDA i : GetDay(i.timestamp) = d - 1)
        IN  [ day |-> Days[d],
              theft |-> Max(0, CountOfType(dayIncidents, "theft")),
              assault |-> Max(0, CountOfType(dayIncidents, "assault")),
              vandalism |-> Max(0, CountOfType(dayIncidents, "vandalism")),
              burglary |-> Max(0, CountOfType(dayIncidents, "burglary")) ]]

\* The zones of generateMockIncidents, their latitudes in grid steps.
MockZones ==
    << [name |-> "Fort District", lat |-> 2, count |-> 45],
       [name |-> "Eastern Suburbs", lat |-> 12, count |-> 52],
       [name |-> "Bandra-Worli", lat |-> 12, count |-> 31],
       [name |-> "Marine Drive", lat |-> 1, count |-> 28],
       [name |-> "Northern Suburbs", lat |-> 17, count |-> 14] >>

MockCrimeTypes == << "theft", "assault", "vandalism", "burglary", "robbery", "drug-related" >>

MockSeverities == << "high", "medium", "low" >>

\* The runs of Math.random() the model draws from.
MockSeeds == {0, 1}

\* Math.floor(Math.random() * range) for draw number `draw` of mock incident k.
RandomBelow(seed, k, draw, range) ==
    ((5 + 6 * seed) * k + draw * (k \div range) + draw) % range

\* The zone of the k-th incident pushed.
RECURSIVE MockZoneOf(_, _)
MockZoneOf(k, z) ==
    IF k <= MockZones[z].count THEN z ELSE MockZoneOf(k - MockZones[z].count, z + 1)

GenerateMockIncidents(seed, clock) ==
    MapSeq([k \in 1..SumSeq(MapSeq(MockZones, LAMBDA zone : zone.count)) |-> k], LAMBDA k :
        LET zone == MockZones[MockZoneOf(k, 1)]
        IN  [ id |-> k,
              lat |-> zone.lat + RandomBelow(seed, k, 0, 3) - 1,
              type |-> MockCrimeTypes[RandomBelow(seed, k, 2, Len(MockCrimeTypes)) + 1],
              severity |-> MockSeverities[RandomBelow(seed, k, 3, Len(MockSeverities)) + 1],
              timeAgo |-> ToString(RandomBelow(seed, k, 4, 48)) \o " mins ago",
              zone |-> zone.name,
              timestamp |-> clock ])

\* What both branches of getDashboardData return for the incidents they work
\* on, the trend analysis being the one given.
DashboardDataOf(incs, clock, temporalAnalysis) ==
    LET riskZones == DashboardRiskZones(incs, clock)
    IN  [ rejected |-> FALSE,
          metrics |-> CalculateMetrics(incs, riskZones, temporalAnalysis.prediction),
          riskZones |-> riskZones,
          trend |-> CalculateTrends(incs),
          incidents |-> incs,
          mlAnalytics |->
              [ hotspots |-> FirstOf(HotspotsOf(incs), 5),
                classification |-> ClassificationOf(incs),
                anomalies |-> FirstOf(AnomaliesOf(incs, clock).value, 10),
                temporalAnalysis |-> temporalAnalysis ] ]

\* The outcomes of awaiting the client and the query.  When the connection
\* fails the collection is never read: the model takes it empty then.
Connections(documents) == IF documents = <<>> THEN BOOLEAN ELSE {TRUE}

\* getDashboardData awaits the client and the documents of the collection.  A
\* failed connection throws; otherwise the call works on the normalized
\* documents, or on mock incidents when there is no document.
QueryIncidents ==
    /\ pc = "getDashboardData"
    /\ \E connected \in Connections(incidents) :
           IF connected
           THEN /\ \E seed \in IF incidents = <<>> THEN MockSeeds ELSE {0} :
                       working' = IF incidents # <<>>
                                  THEN MapSeq(incidents, LAMBDA d : NormalizeIncident(d, now))
                                  ELSE GenerateMockIncidents(seed, now)
                /\ pc' = "try"
           ELSE /\ working' = <<>>
                /\ pc' = "catch"
    /\ UNCHANGED <<incidents, now, calls, index, visited, queue, clusterIndices, clusters,
                   zones, anomalies, previous, component, classification, trendAnalysis,
                   dashboard>>

\* The rest of the try block: the analytics, and the return unless one throws.
RunAnalytics ==
    /\ pc = "try"
    /\ IF AnomaliesOf(working, now).threw
       THEN /\ pc' = "catch"
            /\ UNCHANGED <<calls, dashboard>>
       ELSE /\ \E slopeError \in SlopeErrors(IncidentCounts(working)),
                  fitError \in FitErrors(IncidentCounts(working)) :
                   dashboard' = DashboardDataOf(working, now,
                                                TrendAnalysisOf(working, slopeError, fitError))
            /\ pc' = "done"
            /\ calls' = calls + 1
    /\ UNCHANGED <<incidents, now, index, visited, queue, clusterIndices, clusters, zones,
                   anomalies, previous, component, classification, trendAnalysis, working>>

\* The catch block generates mock incidents to work on.
CatchError ==
    /\ pc = "catch"
    /\ \E seed \in MockSeeds : working' = GenerateMockIncidents(seed, now)
    /\ pc' = "fallback"
    /\ UNCHANGED <<incidents, now, calls, index, visited, queue, clusterIndices, clusters,
                   zones, anomalies, previous, component, classification, trendAnalysis,
                   dashboard>>

\* The rest of the catch block: the analytics and the return; an error thrown
\* here rejects the promise.
RunFallback ==
    /\ pc = "fallback"
    /\ IF AnomaliesOf(working, now).threw
       THEN dashboard' = [rejected |-> TRUE]
       ELSE \E slopeError \in SlopeErrors(IncidentCounts(working)),
               fitError \in FitErrors(IncidentCounts(working)) :
                dashboard' = DashboardDataOf(working, now,
                                             TrendAnalysisOf(working, slopeError, fitError))
    /\ pc' = "done"
    /\ calls' = calls + 1
    /\ UNCHANGED <<incidents, now, index, visited, queue, clusterIndices, clusters, zones,
                   anomalies, previous, component, classification, trendAnalysis, working>>

DocumentZones == << "A", "B", "C", "D" >>

DocumentTypes == << "Theft", "assault", "burglary" >>

\* Document i of a collection spread over `spread` zones, three grid steps
\* apart, whose first `high` documents are of high severity.  An imported
\* document names its fields as the import did.
Document(i, spread, high, imported, age) ==
    LET z == ((i - 1) % spread) + 1
        sev == IF i <= high THEN "High" ELSE "low"
        ts == Clock0 - age - (i % 2)
        type == DocumentTypes[((i - 1) % Len(DocumentTypes)) + 1]
    IN  IF imported /\ i % 2 = 1
        THEN [ _id |-> i, latitude |-> 3 * (z - 1), crime_type |-> type, level |-> sev,
               area |-> DocumentZones[z], date |-> ts ]
        ELSE [ id |-> i, lat |-> 3 * (z - 1), type |-> type, severity |-> sev,
               zone |-> DocumentZones[z], timestamp |-> ts ]

InitDashboard ==
    /\ \E n \in 0..MaxDocuments, spread \in 1..Len(DocumentZones),
          kind \in {<<FALSE, 1>>, <<TRUE, 1>>, <<FALSE, 10 * HoursPerDay>>} :
           \E high \in {0, n - 1, n} \cap 0..n :
               incidents = [i \in 1..n |-> Document(i, spread, high, kind[1], kind[2])]
    /\ now = Clock0
    /\ component = "getDashboardData"
    /\ pc = component
    /\ Idle

NextDashboard ==
    \/ QueryIncidents
    \/ RunAnalytics
    \/ CatchError
    \/ RunFallback

SpecDashboard == InitDashboard /\ [][NextDashboard]_vars

----------------------------------------------------------------------------
(* Claims on the hotspot detector *)

\* The clusters of a result, each as the set of the identities of its members.
MemberSets(cs) == {{i.id : i \in Range(c.incidents)} : c \in Range(cs)}

SameLocation(incs) == \A i, j \in 1..Len(incs) : incs[i].lat = incs[j].lat

\* C1: detectHotspots returns the same set of clusters, each taken as the set of
\* its member incidents, for every permutation of the incident collection.
C1_PermutationInvariant ==
    (pc = "done" /\ calls = 2) => MemberSets(clusters) = MemberSets(previous)

\* C2: given N >= minPoints incidents that share one location, detectHotspots
\* returns exactly one cluster, of all N incidents, with radius 0.
C2_CoLocatedOneCluster ==
    (pc = "done" /\ Len(incidents) >= MinPoints /\ SameLocation(incidents))
        => /\ Len(clusters) = 1
           /\ MemberSets(clusters) = {{i.id : i \in Range(incidents)}}
           /\ clusters[1].radius = 0

\* C3: every cluster detectHotspots returns has at least minPoints members.
C3_AtLeastMinPoints ==
    pc = "done" => \A c \in Range(clusters) : Len(c.incidents) >= MinPoints

\* The members of a cluster of high severity, counted on the members themselves,
\* and n times min(100, min(50, (n / 50) * 50) + (high / n) * 50) for its n members.
HighMembers(c) == Cardinality({i \in 1..Len(c.incidents) : c.incidents[i].severity = "high"})

IntensityTimesCount(c) ==
    Min(100 * Len(c.incidents),
        Min(50, Len(c.incidents)) * Len(c.incidents) + 50 * HighMembers(c))

WithinEps(k) ==
    {j \in 1..Len(incidents) :
        j # k /\ GridMetres * Abs(incidents[j].lat - incidents[k].lat) <= Eps}

IsDense(k) == Cardinality(WithinEps(k)) >= MinPoints

ClustersOf(k) ==
    {c \in 1..Len(clusters) :
        \E m \in 1..Len(clusters[c].incidents) : clusters[c].incidents[m].id = incidents[k].id}

\* C25: after detectHotspots every incident that lies within eps of an incident
\* having at least minPoints neighbours is a member of some returned cluster;
\* an incident is left out of all clusters only when no such dense incident is
\* within eps of it.
C25_ReachableIncidentsClustered ==
    pc = "done" =>
        \A k \in 1..Len(incidents) :
            (IsDense(k) \/ \E j \in WithinEps(k) : IsDense(j)) <=> ClustersOf(k) # {}

\* C26: after detectHotspots every incident that has at least minPoints other
\* incidents within eps is a member of exactly one returned cluster, and two
\* such dense incidents within eps of each other are members of the same
\* cluster, for every input order.
C26_DenseIncidentsClusteredTogether ==
    pc = "done" =>
        \A k \in 1..Len(incidents) :
            IsDense(k) =>
                /\ Cardinality(ClustersOf(k)) = 1
                /\ \A j \in WithinEps(k) : IsDense(j) => ClustersOf(j) = ClustersOf(k)

C26_Witness ==
    /\ pc = "done"
    /\ \E k, j, m \in 1..Len(incidents) :
           /\ IsDense(k) /\ IsDense(j) /\ IsDense(m)
           /\ j \in WithinEps(k) /\ m \in WithinEps(j) /\ m \notin WithinEps(k) /\ m # k
           /\ k > m
           /\ ClustersOf(k) = ClustersOf(m)
           /\ Len(clusters) = 1

\* C27: the clusters returned by detectHotspots are pairwise disjoint: no
\* incident (input position) is a member of two clusters, and no cluster lists
\* the same incident twice.
C27_ClustersDisjoint ==
    pc = "done" =>
        /\ \A k \in 1..Len(incidents) : Cardinality(ClustersOf(k)) <= 1
        /\ \A c \in 1..Len(clusters) :
               \A a, b \in 1..Len(clusters[c].incidents) :
                   clusters[c].incidents[a].id = clusters[c].incidents[b].id => a = b

C27_Witness ==
    /\ pc = "done"
    /\ Len(clusters) = 2
    /\ \A c \in 1..Len(clusters) : Len(clusters[c].incidents) = 4
    /\ incidents[1].lat # incidents[2].lat

\* C28: the breadth-first expansion of expandCluster terminates on every
\* finite incident collection: an incident is marked visited at most once (the
\* visited set only grows, by one incident a step), neighbours are appended to
\* the queue only by the step that marks their incident visited, hence at most
\* once for each incident, and so the queue becomes empty and detectHotspots
\* returns.
C28_ExpansionTerminates ==
    /\ [][/\ visited \subseteq visited'
          /\ Cardinality(visited' \ visited) <= 1
          /\ Len(queue') > Len(queue) => Cardinality(visited' \ visited) = 1]_vars
    /\ [](Len(queue) <= Len(incidents) * Len(incidents))
    /\ <>(pc = "done")

C28_Witness ==
    /\ pc = "expandCluster"
    /\ queue = <<>>
    /\ Len(clusterIndices) = MaxChain
    /\ Cardinality({incidents[k].lat : k \in 1..Len(incidents)}) > 1

----------------------------------------------------------------------------
(* Claims on the risk analyzer *)

\* Positions of the incidents of a zone, and counts over them, taken from the
\* incident collection itself.
InZone(name) == {k \in 1..Len(incidents) : incidents[k].zone = name}

HighIn(name) == {k \in InZone(name) : incidents[k].severity = "high"}

TypesIn(name) == {incidents[k].type : k \in InZone(name)}

Freq(name, type) == Cardinality({k \in InZone(name) : incidents[k].type = type})

Within7Days(name) ==
    {k \in InZone(name) : now - incidents[k].timestamp <= 7 * HoursPerDay}

Week1(name) ==
    {k \in InZone(name) : /\ incidents[k].timestamp >= now - 7 * HoursPerDay
                          /\ incidents[k].timestamp <= now}

Week2(name) ==
    {k \in InZone(name) : /\ incidents[k].timestamp >= now - 14 * HoursPerDay
                          /\ incidents[k].timestamp <= now - 7 * HoursPerDay}

FirstSeen(name) == CHOOSE k \in InZone(name) : \A j \in InZone(name) : k <= j

\* C4: two calls of a component on the same incidents return the same output,
\* whatever the clock reads at each call.
C4_SameOutputTwice ==
    (pc = "done" /\ calls = 2) => zones = previous

\* C6: every RiskZone returned has a score in [0,100].
C6_ScoreInRange ==
    pc = "done" => \A i \in 1..Len(zones) :
                       zones[i].score >= 0 /\ zones[i].score <= 100 * Scale

C6_Witness ==
    /\ pc = "done"
    /\ \E i, j \in 1..Len(zones) :
           zones[i].score > 80 * Scale /\ zones[j].score < 40 * Scale

\* C7: at most 10 zones are returned, by non-increasing score, the zone at
\* position i has rank i, and zones of equal score keep the order in which
\* their names were first seen in the input.
C7_RankedTopTen ==
    pc = "done" =>
        /\ Len(zones) <= TopZones
        /\ \A i \in 1..Len(zones) : zones[i].rank = i
        /\ \A i, j \in 1..Len(zones) :
               i < j => /\ zones[i].score >= zones[j].score
                        /\ zones[i].score = zones[j].score
                               => FirstSeen(zones[i].name) < FirstSeen(zones[j].name)

C7_Witness ==
    /\ pc = "done"
    /\ Len(zones) = TopZones
    /\ Cardinality({incidents[k].zone : k \in 1..Len(incidents)}) > TopZones
    /\ \E i \in 1..(TopZones - 1) :
           /\ zones[i].score = zones[i + 1].score
           /\ zones[1].score > zones[TopZones].score

\* The score the formula gives a zone, times Scale.
FormulaScore(name) ==
    LET zoneCount == Cardinality(InZone(name))
        raw == (40 * Scale * Cardinality(HighIn(name))) \div zoneCount
               + Min(30 * Scale, (100 * Scale * zoneCount) \div Len(incidents))
               + Scale * Min(15, 2 * Cardinality(TypesIn(name)))
               + Min(15 * Scale, (30 * Scale * Cardinality(Within7Days(name))) \div zoneCount)
    IN  Max(0, Min(100 * Scale, raw))

\* C8: the score of a zone is (highCount/zoneCount)*40 + min(30, (zoneCount/
\* totalCount)*100) + min(15, 2*distinctCrimeTypes) + min(15, (countWithin7Days/
\* zoneCount)*30), clamped to [0,100].
C8_ScoreFormula ==
    pc = "done" => \A i \in 1..Len(zones) : zones[i].score = FormulaScore(zones[i].name)

C8_Witness ==
    /\ pc = "done"
    /\ \E i \in 1..Len(zones) :
           LET name == zones[i].name
           IN  /\ Cardinality(HighIn(name)) \in 1..(Cardinality(InZone(name)) - 1)
               /\ 100 * Cardinality(InZone(name)) > 30 * Len(incidents)
               /\ Cardinality(Within7Days(name)) \in 1..(Cardinality(InZone(name)) - 1)
               /\ Len(zones) = 2

\* C9 as claimed: a zone with no incident in the preceding week has trend 100
\* with an incident in the last 7 days and 0 otherwise, whatever its size.
C9_TrendNoPrecedingWeek ==
    pc = "done" =>
        \A i \in 1..Len(zones) :
            Week2(zones[i].name) = {}
                => zones[i].trend = IF Week1(zones[i].name) # {} THEN 1000 ELSE 0

\* C9, amended: a zone of at least two incidents with no incident in the
\* preceding week has trend 100 with an incident in the last 7 days and 0
\* otherwise; a zone of a single incident has trend 0.
C9_TrendNoPrecedingWeekOfTwo ==
    pc = "done" =>
        \A i \in 1..Len(zones) :
            /\ (Cardinality(InZone(zones[i].name)) >= 2 /\ Week2(zones[i].name) = {})
                   => zones[i].trend = IF Week1(zones[i].name) # {} THEN 1000 ELSE 0
            /\ Cardinality(InZone(zones[i].name)) = 1 => zones[i].trend = 0

C9_Witness ==
    /\ pc = "done"
    /\ \E i, j, k \in 1..Len(zones) :
           /\ Cardinality(InZone(zones[i].name)) >= 2
           /\ Week2(zones[i].name) = {} /\ Week1(zones[i].name) # {}
           /\ zones[i].trend = 1000
           /\ Cardinality(InZone(zones[j].name)) = 1
           /\ Week2(zones[j].name) = {} /\ Week1(zones[j].name) # {}
           /\ zones[j].trend = 0

\* C10: the crime types of a RiskZone are at most 3, they are the most
\* frequent types of the zone, and they are listed from the most frequent on.
C10_MostFrequentTypes ==
    pc = "done" =>
        \A i \in 1..Len(zones) :
            LET listed == zones[i].crimeTypes
                name == zones[i].name
            IN  /\ Len(listed) <= 3
                /\ \A a, b \in 1..Len(listed) :
                       a < b => Freq(name, listed[a]) >= Freq(name, listed[b])
                /\ \A t \in Range(listed) : \A u \in TypesIn(name) \ Range(listed) :
                       Freq(name, t) >= Freq(name, u)

\* The incidents of a zone inside the last 7 days, inside the 7 days before
\* them, and on the instant that parts the two windows.
InLastWeek(name) ==
    {k \in InZone(name) : /\ incidents[k].timestamp > now - 7 * HoursPerDay
                          /\ incidents[k].timestamp <= now}

InPrecedingWeek(name) ==
    {k \in InZone(name) : /\ incidents[k].timestamp >= now - 14 * HoursPerDay
                          /\ incidents[k].timestamp < now - 7 * HoursPerDay}

OnBoundary(name) == {k \in InZone(name) : incidents[k].timestamp = now - 7 * HoursPerDay}

\* The week-over-week change of the counts of two windows, in tenths of a percent.
ChangeOf(week1Count, week2Count) ==
    IF week2Count = 0 THEN (IF week1Count > 0 THEN 1000 ELSE 0)
    ELSE RoundDiv((week1Count - week2Count) * 1000, week2Count)

\* C24: in the week-over-week trend of a zone the last-7-days window and the
\* preceding-7-days window are disjoint: no timestamp is counted in both
\* week1Count and week2Count, one exactly 7 days before the call included.  The
\* trend is then the change of the counts of two disjoint windows, the instant
\* that parts them belonging to one of the two.
C24_DisjointWeekWindows ==
    pc = "done" =>
        \A i \in 1..Len(zones) :
            LET name == zones[i].name
                last == Cardinality(InLastWeek(name))
                preceding == Cardinality(InPrecedingWeek(name))
                parting == Cardinality(OnBoundary(name))
            IN  Cardinality(InZone(name)) >= 2 =>
                    zones[i].trend \in { ChangeOf(last + parting, preceding),
                                         ChangeOf(last, preceding + parting) }

\* The crime types of a zone with the letter case folded.
FoldedTypesIn(name) == {ToLowerCase(incidents[k].type) : k \in InZone(name)}

\* The score of a zone when its crime types are counted case-insensitively.
FormulaScoreFolded(name) ==
    LET zoneCount == Cardinality(InZone(name))
        raw == (40 * Scale * Cardinality(HighIn(name))) \div zoneCount
               + Min(30 * Scale, (100 * Scale * zoneCount) \div Len(incidents))
               + Scale * Min(15, 2 * Cardinality(FoldedTypesIn(name)))
               + Min(15 * Scale, (30 * Scale * Cardinality(Within7Days(name))) \div zoneCount)
    IN  Max(0, Min(100 * Scale, raw))

\* C11: the risk analyzer counts crime types case-insensitively: type labels
\* that differ in letter case only are one type in min(15, 2*distinctTypes),
\* so the letter case of a label does not change a zone's score.
C11_CaseInsensitiveTypes ==
    pc = "done" =>
        \A i \in 1..Len(zones) : zones[i].score = FormulaScoreFolded(zones[i].name)

\* Zone a is all high severity and holds half of all incidents; zone b has no
\* high-severity incident and fewer incidents; all else is equal.
Dominates(a, b) ==
    /\ HighIn(a) = InZone(a)
    /\ 2 * Cardinality(InZone(a)) = Len(incidents)
    /\ HighIn(b) = {}
    /\ Cardinality(InZone(b)) < Cardinality(InZone(a))
    /\ Cardinality(TypesIn(a)) = Cardinality(TypesIn(b))
    /\ Cardinality(Within7Days(a)) * Cardinality(InZone(b))
           = Cardinality(Within7Days(b)) * Cardinality(InZone(a))

\* C17: a zone whose incidents are all of high severity and that holds half of
\* all incidents scores strictly higher than a zone with no high-severity
\* incident and a smaller share, when both have as many distinct crime types
\* and the same fraction of incidents within the last 7 days.
C17_SevereHalfScoresHigher ==
    pc = "done" =>
        \A i, j \in 1..Len(zones) :
            Dominates(zones[i].name, zones[j].name) => zones[i].score > zones[j].score

C17_Witness ==
    /\ pc = "done"
    /\ \E i, j \in 1..Len(zones) :
           /\ Dominates(zones[i].name, zones[j].name)
           /\ zones[i].score > zones[j].score
           /\ Len(zones) = 3

----------------------------------------------------------------------------
(* Claims on the anomaly detector *)

\* C5: on 5 or more incidents detectAnomalies raises no error and returns
\* anomalies whose scores and confidences are finite numbers.
C5_NoErrorOnFiveOrMore ==
    (pc = "done" /\ Len(incidents) >= MinAnomalyIncidents)
        => /\ ~anomalies.threw
           /\ \A i \in 1..Len(anomalies.value) :
                  anomalies.value[i].score \in Int /\ anomalies.value[i].confidence \in Int

\* The anomalies of a sequence whose score is at least `score`.
ScoringAtLeast(as, score) == {i \in 1..Len(as) : as[i].score >= score}

\* C12: detectAnomalies returns at most 20 anomalies, in non-increasing order
\* of score, and they are the 20 highest-scoring of all the anomalies the five
\* detectors produce (all of them when fewer than 20 are produced).
C12_TopTwentyByScore ==
    (pc = "done" /\ ~anomalies.threw /\ Len(incidents) >= MinAnomalyIncidents) =>
        LET all == AllAnomalies(incidents, now)
            returned == anomalies.value
        IN  /\ Len(returned) = Min(TopAnomalies, Len(all))
            /\ \A i, j \in 1..Len(returned) : i < j => returned[i].score >= returned[j].score
            /\ Range(returned) \subseteq Range(all)
            /\ \A a \in Range(all) :
                   Cardinality(ScoringAtLeast(returned, a.score))
                       = Min(TopAnomalies, Cardinality(ScoringAtLeast(all, a.score)))

C12_Witness ==
    /\ pc = "done"
    /\ ~anomalies.threw
    /\ Len(AllAnomalies(incidents, now)) > TopAnomalies
    /\ Len(anomalies.value) = TopAnomalies
    /\ anomalies.value[1].score > anomalies.value[TopAnomalies].score
    /\ \E a \in Range(AllAnomalies(incidents, now)) :
           a.score < anomalies.value[TopAnomalies].score

\* The hours of the incidents, the number of incidents of an hour, and the
\* collections in which one hour holds ten times the count c of every other.
HoursOf(incs) == {incs[i].timestamp : i \in 1..Len(incs)}

CountInHour(incs, hour) == Cardinality({i \in 1..Len(incs) : incs[i].timestamp = hour})

TenfoldHour(incs, hour) ==
    /\ Cardinality(HoursOf(incs)) >= 2
    /\ \E c \in 1..Len(incs) :
           /\ CountInHour(incs, hour) = 10 * c
           /\ \A other \in HoursOf(incs) \ {hour} : CountInHour(incs, other) = c

VolumeSpikes(as) == {i \in 1..Len(as) : as[i].type = "volume_spike"}

\* C13 as claimed: when all hour buckets but one hold the same count c and the
\* remaining one holds 10*c, whatever the number of buckets, exactly one
\* volume_spike is emitted and its score is 100.
C13_TenfoldBucketScores100 ==
    (pc = "done" /\ ~anomalies.threw /\ Len(incidents) >= MinAnomalyIncidents) =>
        \A hour \in HoursOf(incidents) :
            TenfoldHour(incidents, hour) =>
                /\ Cardinality(VolumeSpikes(anomalies.value)) = 1
                /\ \A i \in VolumeSpikes(anomalies.value) : anomalies.value[i].score = 1000

\* C13, amended: with k hour buckets of which one holds 10*c and the others c,
\* no volume_spike is emitted for k < 6; for k >= 6 exactly one is emitted, on
\* the incidents of the 10*c bucket, with score min(100, 20*(k-1)/sqrt(k)),
\* which is 100 exactly when k >= 27.
C13_TenfoldBucketByBuckets ==
    (pc = "done" /\ ~anomalies.threw /\ Len(incidents) >= MinAnomalyIncidents) =>
        \A hour \in HoursOf(incidents) :
            TenfoldHour(incidents, hour) =>
                LET k == Cardinality(HoursOf(incidents))
                    spikes == VolumeSpikes(anomalies.value)
                IN  IF k < 6 THEN spikes = {}
                    ELSE /\ Cardinality(spikes) = 1
                         /\ \A i \in spikes :
                                LET a == anomalies.value[i]
                                IN  /\ \A j \in 1..Len(a.affectedIncidents) :
                                           a.affectedIncidents[j].timestamp = hour
                                    /\ Len(a.affectedIncidents) = CountInHour(incidents, hour)
                                    /\ a.score = 1000 <=> k >= 27
                                    /\ a.score < 1000 =>
                                           /\ a.score * a.score * k <= 40000 * (k - 1) * (k - 1)
                                           /\ (a.score + 1) * (a.score + 1) * k
                                                  > 40000 * (k - 1) * (k - 1)

C13_Witness ==
    /\ pc = "done"
    /\ ~anomalies.threw
    /\ \E hour \in HoursOf(incidents) : TenfoldHour(incidents, hour)
    /\ Cardinality(HoursOf(incidents)) >= 27
    /\ \E i \in VolumeSpikes(anomalies.value) : anomalies.value[i].score = 1000

\* C14: every anomaly detectAnomalies returns, of any of the five kinds, has a
\* score in [0,100] and a confidence in [50,100].
C14_ScoreAndConfidenceInRange ==
    pc = "done" =>
        \A i \in 1..Len(anomalies.value) :
            /\ anomalies.value[i].score >= 0 /\ anomalies.value[i].score <= 1000
            /\ anomalies.value[i].confidence >= 50 /\ anomalies.value[i].confidence <= 100

C14_Witness ==
    /\ pc = "done"
    /\ \E i, j, k \in 1..Len(anomalies.value) :
           /\ anomalies.value[i].type = "temporal_anomaly" /\ anomalies.value[i].score = 1000
           /\ anomalies.value[j].type = "geographic_cluster" /\ anomalies.value[j].score < 1000
           /\ anomalies.value[k].type = "severity_spike" /\ anomalies.value[k].confidence < 100

\* The incidents of a zone as positions of the collection, the sum of their
\* severity scores (high 3, medium 2, low 1), and n * (n - 1) times the sample
\* variance of those scores.
SeverityOf(k) ==
    IF incidents[k].severity = "high" THEN 3
    ELSE IF incidents[k].severity = "medium" THEN 2 ELSE 1

SeveritySum(name) ==
    SumSeq([i \in 1..Len(incidents) |-> IF incidents[i].zone = name THEN SeverityOf(i) ELSE 0])

SeveritySpread(name) ==
    Cardinality(InZone(name))
            * SumSeq([i \in 1..Len(incidents) |->
                         IF incidents[i].zone = name THEN SeverityOf(i) * SeverityOf(i) ELSE 0])
        - SeveritySum(name) * SeveritySum(name)

\* (mean - 2) / max(stdDev, 0.5) of a zone whose mean exceeds 2, as its sign
\* and its square: the standard deviation is at least 0.5 when 4 * n * (n - 1)
\* times the variance is at least n * (n - 1).
FlooredZScore(name) ==
    LET n == Cardinality(InZone(name))
        d == SeveritySum(name) - 2 * n
    IN  IF 4 * SeveritySpread(name) >= n * (n - 1)
        THEN [sign |-> 1, num |-> d * d * (n - 1), den |-> n * SeveritySpread(name)]
        ELSE [sign |-> 1, num |-> 4 * d * d, den |-> n * n]

SeveritySpikesOf(as, name) ==
    {i \in 1..Len(as) : as[i].type = "severity_spike" /\ as[i].affectedIncidents[1].zone = name}

\* C21: for every zone whose mean severity exceeds 2.0 the severity detector
\* uses z = (mean - 2) / max(stddev, 0.5), emits a severity_spike iff z > 1.5
\* and gives it the score min(100, z * 25), also when the zone's standard
\* deviation lies strictly between 0 and 0.5.
C21_SeverityZFloored ==
    (pc = "done" /\ ~anomalies.threw /\ Len(incidents) >= MinAnomalyIncidents
         /\ Len(AllAnomalies(incidents, now)) <= TopAnomalies) =>
        \A name \in {incidents[k].zone : k \in 1..Len(incidents)} :
            SeveritySum(name) > 2 * Cardinality(InZone(name)) =>
                LET z == FlooredZScore(name)
                    spikes == SeveritySpikesOf(anomalies.value, name)
                IN  /\ Cardinality(spikes) = IF Exceeds(z, 3, 2) THEN 1 ELSE 0
                    /\ \A i \in spikes : anomalies.value[i].score = ScoreOf(z, 25)

\* The other incidents less than 1 km from incident k, as positions.
NearOthers(k) ==
    {j \in 1..Len(incidents) :
        j # k /\ GridMetres * Abs(incidents[j].lat - incidents[k].lat) < 1000}

GeographicClustersOn(as, k) ==
    {i \in 1..Len(as) : /\ as[i].type = "geographic_cluster"
                        /\ as[i].affectedIncidents[1].id = incidents[k].id}

\* C22: the geographic detector emits one geographic_cluster anomaly for each
\* incident that has more than 10 other incidents within 1 km and none for any
\* other incident, with the score min(100, ((count - 5) / 3) * 15) for that
\* number of other incidents; seen in the result whenever it keeps every anomaly.
C22_GeographicClusterPerDenseIncident ==
    (pc = "done" /\ ~anomalies.threw /\ Len(incidents) >= MinAnomalyIncidents
         /\ Len(AllAnomalies(incidents, now)) <= TopAnomalies) =>
        \A k \in 1..Len(incidents) :
            LET count == Cardinality(NearOthers(k))
                emitted == GeographicClustersOn(anomalies.value, k)
            IN  /\ Cardinality(emitted) = IF count > 10 THEN 1 ELSE 0
                /\ \A i \in emitted :
                       anomalies.value[i].score = Min(1000, 50 * (count - 5))

C22_Witness ==
    /\ pc = "done"
    /\ ~anomalies.threw
    /\ Len(AllAnomalies(incidents, now)) <= TopAnomalies
    /\ \E k, m \in 1..Len(incidents) :
           /\ Cardinality(NearOthers(k)) = 11
           /\ GeographicClustersOn(anomalies.value, k) # {}
           /\ Cardinality(NearOthers(m)) < 10
           /\ GeographicClustersOn(anomalies.value, m) = {}

----------------------------------------------------------------------------
(* Claims on the crime classifier *)

\* The incidents of a day of the week (0 = Sunday), taken from the incident
\* collection itself, and the sums the least-squares line is made of: the
\* slope is SlopeTimes28 / 28 and R squared is SlopeTimes28^2 / (4 * Spread).
DayCount(d) == Cardinality({i \in 1..Len(incidents) : GetDay(incidents[i].timestamp) = d})

SlopeTimes28 == SumSeq([d \in 1..7 |-> (d - 4) * DayCount(d - 1)])

Spread ==
    7 * SumSeq([d \in 1..7 |-> DayCount(d - 1) * DayCount(d - 1)])
        - SumSeq([d \in 1..7 |-> DayCount(d - 1)]) * SumSeq([d \in 1..7 |-> DayCount(d - 1)])

\* C15: the prediction of analyzeTrend has expectedChange equal to the
\* least-squares slope over day index 0..6 rounded to 1 decimal, trend 'stable'
\* iff |slope| < 0.5 and else 'increasing' or 'decreasing' by the sign of the
\* slope, and confidence round(R^2 * 100); counts [1,2,3,4,5,6,7] give
\* 'increasing', confidence 100 and expectedChange 1.0.  Either neighbour is
\* taken as the rounding of a value half-way between two.
C15_RegressionPrediction ==
    (pc = "done" /\ Len(incidents) > 0) =>
        LET p == trendAnalysis.prediction
        IN  /\ Abs(28 * p.expectedChange - 10 * SlopeTimes28) <= 14
            /\ p.trend = IF Abs(SlopeTimes28) < 14 THEN "stable"
                          ELSE IF SlopeTimes28 > 0 THEN "increasing" ELSE "decreasing"
            /\ Spread > 0 =>
                   Abs(p.confidence * 4 * Spread - 100 * SlopeTimes28 * SlopeTimes28)
                       <= 2 * Spread
            /\ (\A d \in 0..6 : DayCount(d) = d + 1) =>
                   p = [trend |-> "increasing", confidence |-> 100, expectedChange |-> 10]

\* The incidents of a lower-cased crime type and the sum of their severity
\* weights, taken from the incident collection itself.
OfType(type) == FilterSeq(incidents, LAMBDA i : ToLowerCase(i.type) = type)

WeightSum(type) == SumSeq(MapSeq(OfType(type), LAMBDA i : SeverityWeight(type, i.severity)))

\* 1000 * count * combinedScore of a crime type.
CombinedTimes(type) ==
    60 * WeightSum(type) + 4 * Len(OfType(type)) * Min(100, Len(OfType(type)))

\* C19: the riskLevel of a crime-type cluster is 'critical' when combinedScore
\* >= 0.75, 'high' when 0.5 <= combinedScore < 0.75, 'medium' when 0.25 <=
\* combinedScore < 0.5 and 'low' otherwise, for combinedScore = 0.6 * (mean
\* severity weight / 10) + 0.4 * min(1, count / 100).
C19_RiskLevelThresholds ==
    pc = "done" =>
        \A i \in 1..Len(classification.clusters) :
            LET c == classification.clusters[i]
                n == Len(OfType(c.crimeType))
            IN  c.riskLevel = IF CombinedTimes(c.crimeType) >= 750 * n THEN "critical"
                              ELSE IF CombinedTimes(c.crimeType) >= 500 * n THEN "high"
                              ELSE IF CombinedTimes(c.crimeType) >= 250 * n THEN "medium"
                              ELSE "low"

----------------------------------------------------------------------------
(* Claims on all the components *)

\* C16: empty or sub-threshold input gives a neutral result and no error:
\* detectAnomalies on fewer than 5 incidents and detectHotspots on fewer than
\* minPoints return an empty sequence, calculateRiskZones and classifyCrimes on 0
\* incidents return no zones and no clusters, analyzeTrend on 0 incidents
\* returns a null prediction and the seasonality factor 1.0.
C16_NeutralOnSmallInput ==
    pc = "done" =>
        /\ (component = "detectAnomalies" /\ Len(incidents) < MinAnomalyIncidents)
               => anomalies = [threw |-> FALSE, value |-> <<>>]
        /\ (component = "detectHotspots" /\ Len(incidents) < MinPoints) => clusters = <<>>
        /\ (component = "calculateRiskZones" /\ Len(incidents) = 0) => zones = <<>>
        /\ (component = "classifyCrimes" /\ Len(incidents) = 0)
               => /\ classification.clusters = <<>>
                  /\ classification.topCrimeTypes = <<>>
        /\ (component = "analyzeTrend" /\ Len(incidents) = 0)
               => /\ trendAnalysis.prediction = <<>>
                  /\ trendAnalysis.seasonalityFactor = 100
                  /\ trendAnalysis.byDay = <<>>

C16_Witness ==
    /\ pc = "done"
    /\ calls = 1
    /\ component = "detectAnomalies"
    /\ Len(incidents) = MinAnomalyIncidents - 1
    /\ \A i \in 1..Len(incidents) : incidents[i].type = "robbery"
    /\ anomalies.value = <<>>

\* C20: no component modifies its input: from the call to the return of
\* calculateRiskZones, detectHotspots, classifyCrimes, analyzeTrend and
\* detectAnomalies the incident sequence keeps its length, its order and the
\* field values of every incident.
C20_InputUnchanged == [][incidents' = incidents]_vars

C20_Witness ==
    /\ pc = "done"
    /\ calls = 1
    /\ component = "detectHotspots"
    /\ Len(clusters) = 1
    /\ \E i, j \in 1..Len(incidents) : i < j /\ incidents[i].lat < incidents[j].lat

----------------------------------------------------------------------------
(* Claims on the dashboard *)

\* The scores the risk analyzer gives to the zones of incs, every zone included.
ScoresOfZones(incs, clock) ==
    MapSeq(Distinct(MapSeq(incs, LAMBDA i : i.zone)),
           LAMBDA name : ClampScore(CalculateRiskScore(ZoneData(incs, name), Len(incs), clock)))

HighRiskCount(incs, clock) ==
    Len(FilterSeq(ScoresOfZones(incs, clock), LAMBDA score : score >= 80 * Scale))

\* C18: the 'High-Risk Zones' metric returned by getDashboardData is the number
\* of zones of the incident collection whose risk score is at least 80, for
\* every collection, one with more than 3 such zones included.
C18_HighRiskZonesMetric ==
    (pc = "done" /\ ~dashboard.rejected) =>
        /\ dashboard.metrics[3].title = "High-Risk Zones"
        /\ dashboard.metrics[3].value = <<HighRiskCount(dashboard.incidents, now)>>

\* The documents of the collection, normalized, and the zone names of the
\* generated mock incidents.
NormalizedDocuments == [i \in 1..Len(incidents) |-> NormalizeIncident(incidents[i], now)]

MockZoneNames == {MockZones[z].name : z \in 1..Len(MockZones)}

\* C29: when the database query succeeds and returns at least one incident
\* document, getDashboardData returns exactly the normalized database incidents
\* and analytics computed from them; the generated mock incidents are returned
\* only when the collection is empty or the database access fails.
C29_DatabaseIncidentsReturned ==
    (pc = "done" /\ Len(incidents) > 0) =>
        /\ ~dashboard.rejected
        /\ dashboard.incidents = NormalizedDocuments
        /\ dashboard.riskZones = DashboardRiskZones(NormalizedDocuments, now)
        /\ dashboard.trend = CalculateTrends(NormalizedDocuments)
        /\ \A i \in 1..Len(dashboard.incidents) :
               dashboard.incidents[i].zone \notin MockZoneNames

\* Date.getDay() of the weekday a trend point is labelled with.
WeekdayOf(day) ==
    CASE day = "Sun" -> 0
      [] day = "Mon" -> 1
      [] day = "Tue" -> 2
      [] day = "Wed" -> 3
      [] day = "Thu" -> 4
      [] day = "Fri" -> 5
      [] day = "Sat" -> 6

\* The returned incidents of a crime type whose timestamp falls on a weekday.
IncidentsOn(day, type) ==
    Cardinality({k \in 1..Len(dashboard.incidents) :
                    /\ GetDay(dashboard.incidents[k].timestamp) = WeekdayOf(day)
                    /\ ToLowerCase(dashboard.incidents[k].type) = type})

\* C30: in the trend series returned by getDashboardData, the point labelled
\* with weekday D (Mon..Sun) counts, for each of theft, assault, vandalism and
\* burglary, exactly the incidents of that type whose timestamp falls on
\* weekday D.
C30_TrendPointsByWeekday ==
    (pc = "done" /\ ~dashboard.rejected) =>
        \A d \in 1..Len(dashboard.trend) :
            LET point == dashboard.trend[d]
            IN  /\ point.day = Days[d]
                /\ point.theft = IncidentsOn(point.day, "theft")
                /\ point.assault = IncidentsOn(point.day, "assault")
                /\ point.vandalism = IncidentsOn(point.day, "vandalism")
                /\ point.burglary = IncidentsOn(point.day, "burglary")

====
